---- MODULE Spec2Model ----
(***************************************************************************)
(* Verification model of the unravel-autorouter core:                      *)
(*   - CapacityMeshNodeSolver2_NodeUnderObstacle (adaptive quad-tree mesh  *)
(*     with layer subdivision under obstacles),                            *)
(*   - UnravelSectionSolver (search over point-modification overlays),     *)
(*   - SingleIntraNodeRouteSolver (one sub-solver per connection of a     *)
(*     node, run one after the other).                                     *)
(* Each solver has its own specification (SpecMesh, SpecUnravel,           *)
(* SpecIntra); the variables of the other solvers are held at their        *)
(* initial value.                                                          *)
(***************************************************************************)
EXTENDS Integers, Sequences, FiniteSets, TLC

VARIABLES
    \* ---- mesh builder ----
    MAX_DEPTH,         \* this.MAX_DEPTH (opts.capacityDepth), fixed at construction
    srjObstacles,      \* srj.obstacles: set of [minX, maxX, minY, maxY, zLayers]
    targets,           \* this.targets: sequence of [x, y, availableZ]
    unfinishedNodes,   \* this.unfinishedNodes (array, popped at the end)
    finishedNodes,     \* this.finishedNodes
    meshSolved,        \* this.solved of the mesh builder
    droppedNodes,      \* history: new nodes that _step put in neither list
    \* ---- unravel section solver ----
    sectionInput,      \* constructor parameters of UnravelSectionSolver
    unravelSection,    \* this.unravelSection, built once by the constructor
    candidates,        \* this.candidates (array, shifted at the head)
    visitedHashes,     \* this.queuedOrExploredCandidatePointModificationHashes
    lastProcessedCandidate,
    bestCandidate,
    originalCandidate,
    unravelSolved,     \* this.solved of the unravel solver
    lastStep,          \* record of what the last _step examined (history)
    poppedCandidates,  \* history: the candidates shifted off the queue, in order
    createdCandidates, \* history: pointModifications -> what was computed for them
    unravelFailed,     \* this.failed / this.error of the unravel solver
    \* ---- single intra-node route solver ----
    nodeWithPortPoints,  \* constructor parameter: [portPoints, SHUFFLE_SEED]
    unsolvedConnections, \* this.unsolvedConnections (array, popped at the end)
    totalConnections,    \* this.totalConnections, fixed at construction
    solvedRoutes,        \* this.solvedRoutes
    failedSolvers,       \* this.failedSolvers
    activeSolver,        \* this.activeSolver (NoCandidate models null)
    intraSolved,         \* this.solved of the intra-node solver
    intraFailed,         \* this.failed of the intra-node solver
    intraError,          \* this.error of the intra-node solver
    startedSolvers       \* history: the sub-solvers constructed, in order

meshVars == <<MAX_DEPTH, srjObstacles, targets, unfinishedNodes, finishedNodes, meshSolved,
              droppedNodes>>
unravelVars == <<sectionInput, unravelSection, candidates, visitedHashes, lastProcessedCandidate,
                 bestCandidate, originalCandidate, unravelSolved, lastStep,
                 poppedCandidates, createdCandidates, unravelFailed>>
intraVars == <<nodeWithPortPoints, unsolvedConnections, totalConnections, solvedRoutes,
               failedSolvers, activeSolver, intraSolved, intraFailed, intraError,
               startedSolvers>>
vars == <<meshVars, unravelVars, intraVars>>

NoCandidate == [none |-> TRUE]

\* the intra-node solver before it is constructed
IntraIdle ==
    /\ nodeWithPortPoints = NoCandidate
    /\ unsolvedConnections = <<>>
    /\ totalConnections = 0
    /\ solvedRoutes = <<>>
    /\ failedSolvers = <<>>
    /\ activeSolver = NoCandidate
    /\ intraSolved = FALSE
    /\ intraFailed = FALSE
    /\ intraError = NoCandidate
    /\ startedSolvers = <<>>

(***************************************************************************)
(* Helpers on sequences                                                    *)
(***************************************************************************)
RECURSIVE FlattenFrom(_, _)
FlattenFrom(ss, i) == IF i > Len(ss) THEN <<>> ELSE ss[i] \o FlattenFrom(ss, i + 1)

\* concatenation of a sequence of sequences (Array.flatMap / push(...items))
FlattenSeq(ss) == CHOOSE r \in { FlattenFrom(v, 1) : v \in {ss} } : TRUE

SeqToSet(s) == {s[i] : i \in 1..Len(s)}

RECURSIVE Pow2(_)
Pow2(n) == IF n = 0 THEN 1 ELSE 2 * Pow2(n - 1)

(***************************************************************************)
(*                       M E S H   B U I L D E R                           *)
(***************************************************************************)

\* largest capacityDepth (MAX_DEPTH) of the explored boards
MaxCapacityDepth == 3
\* number of obstacles / connection endpoints of the boards that are explored
MaxObstacles == 2
MaxTargets == 2

Layers == {0, 1}

\* The board is square; its side is chosen so that every cell centre and
\* every half width down to the deepest level is an integer.
BoardSize == Pow2(MaxCapacityDepth + 1)
Bounds == [minX |-> 0, maxX |-> BoardSize, minY |-> 0, maxY |-> BoardSize]

\* Rectangle of a cell: center +/- width/2, height/2
NodeMinX(n) == n.cx - n.w \div 2
NodeMaxX(n) == n.cx + n.w \div 2
NodeMinY(n) == n.cy - n.h \div 2
NodeMaxY(n) == n.cy + n.h \div 2

\* isPointInRect: inclusive containment
IsPointInRect(p, n) ==
    /\ p.x >= NodeMinX(n) /\ p.x <= NodeMaxX(n)
    /\ p.y >= NodeMinY(n) /\ p.y <= NodeMaxY(n)

\* doRectsOverlap: strict overlap (shared edges only do not overlap)
DoRectsOverlap(n, o) ==
    /\ NodeMinX(n) < o.maxX /\ NodeMaxX(n) > o.minX
    /\ NodeMinY(n) < o.maxY /\ NodeMaxY(n) > o.minY

NodeInsideRect(n, o) ==
    /\ NodeMinX(n) >= o.minX /\ NodeMaxX(n) <= o.maxX
    /\ NodeMinY(n) >= o.minY /\ NodeMaxY(n) <= o.maxY

\* Obstacles that overlap the cell in xy and occupy one of the layers the
\* cell was created with.
XYZOverlappingObstacles(n) ==
    {o \in srjObstacles : DoRectsOverlap(n, o) /\ (o.zLayers \cap n.availableZ) # {}}

DoesNodeOverlapObstacle(n) == XYZOverlappingObstacles(n) # {}

IsNodeCompletelyInsideObstacle(n) ==
    \E o \in XYZOverlappingObstacles(n) : NodeInsideRect(n, o)

\* Index of the first target (input order) lying in the cell, 0 if none
GetTargetIfNodeContainsTarget(n) ==
    LET hits == {i \in 1..Len(targets) : IsPointInRect(targets[i], n)}
    IN IF hits = {} THEN 0 ELSE CHOOSE i \in hits : \A j \in hits : i <= j

ShouldBeInGraphAlways(completelyInsideObstacle, containsTarget) == TRUE

ShouldBeInGraphNoTarget(completelyInsideObstacle, containsTarget) ==
    ~completelyInsideObstacle

ShouldBeInGraph(completelyInsideObstacle, containsTarget) ==
    ~completelyInsideObstacle \/ containsTarget

ChildAvailableZKeep(optsZ, completelyInsideObstacle, target) == optsZ

ChildAvailableZBothLayers(optsZ, completelyInsideObstacle, target) ==
    IF completelyInsideObstacle /\ target # 0
    THEN targets[target].availableZ
    ELSE {0, 1}

ChildAvailableZ(optsZ, completelyInsideObstacle, target) ==
    IF completelyInsideObstacle /\ target # 0
    THEN targets[target].availableZ
    ELSE optsZ

\* (the child is computed once from the values of its arguments)
CreateChildNodeAtPosition(parent, cx, cy, w, h, optsZ) ==
    CHOOSE childNode \in
      { LET containsObstacle == DoesNodeOverlapObstacle(base)
            target == GetTargetIfNodeContainsTarget(base)
            completelyInside == containsObstacle /\ IsNodeCompletelyInsideObstacle(base)
        IN [cx |-> base.cx, cy |-> base.cy, w |-> base.w, h |-> base.h,
            availableZ |-> ChildAvailableZ(base.availableZ, completelyInside, target),
            depth |-> par.depth + 1,
            parent |-> [cx |-> par.cx, cy |-> par.cy, w |-> par.w, h |-> par.h,
                        availableZ |-> par.availableZ],
            containsObstacle |-> containsObstacle,
            containsTarget |-> target # 0,
            target |-> target,
            completelyInsideObstacle |-> completelyInside,
            shouldBeInGraph |-> ShouldBeInGraph(completelyInside, target # 0)] :
        base \in {[cx |-> cx, cy |-> cy, w |-> w, h |-> h, availableZ |-> optsZ]},
        par \in {parent} } : TRUE

GetZSubdivisionChildNodesUnfiltered(node) ==
    IF Cardinality(node.availableZ) = 1 THEN <<>>
    ELSE << CreateChildNodeAtPosition(node, node.cx, node.cy, node.w, node.h, {0}),
            CreateChildNodeAtPosition(node, node.cx, node.cy, node.w, node.h, {1}) >>

GetZSubdivisionChildNodes(node) ==
    IF Cardinality(node.availableZ) = 1 THEN <<>>
    ELSE SelectSeq(
           << CreateChildNodeAtPosition(node, node.cx, node.cy, node.w, node.h, {0}),
              CreateChildNodeAtPosition(node, node.cx, node.cy, node.w, node.h, {1}) >>,
           LAMBDA c : c.shouldBeInGraph)

ChildNodePositionsShifted(parent) ==
    LET cw == parent.w \div 2
        ch == parent.h \div 2
    IN << [x |-> parent.cx - cw, y |-> parent.cy - ch \div 2],
          [x |-> parent.cx + cw \div 2, y |-> parent.cy - ch \div 2],
          [x |-> parent.cx - cw \div 2, y |-> parent.cy + ch \div 2],
          [x |-> parent.cx + cw \div 2, y |-> parent.cy + ch \div 2] >>

ChildNodePositions(parent) ==
    LET cw == parent.w \div 2
        ch == parent.h \div 2
    IN << [x |-> parent.cx - cw \div 2, y |-> parent.cy - ch \div 2],
          [x |-> parent.cx + cw \div 2, y |-> parent.cy - ch \div 2],
          [x |-> parent.cx - cw \div 2, y |-> parent.cy + ch \div 2],
          [x |-> parent.cx + cw \div 2, y |-> parent.cy + ch \div 2] >>

GetChildNodesRequeueSingleLayer(parent) ==
    IF parent.depth = MAX_DEPTH THEN <<>>
    ELSE IF Cardinality(parent.availableZ) = 1 THEN <<parent>>
    ELSE LET pos == ChildNodePositions(parent)
             childOf(i) == CreateChildNodeAtPosition(parent, pos[i].x, pos[i].y,
                               parent.w \div 2, parent.h \div 2, {0, 1})
             emit(i) == CHOOSE pushed \in
                          { IF c.shouldBeInGraph THEN <<c>>
                            ELSE IF Cardinality(c.availableZ) = 1 THEN <<>>
                            ELSE GetZSubdivisionChildNodes(c) : c \in {childOf(i)} } : TRUE
         IN emit(1) \o emit(2) \o emit(3) \o emit(4)

GetChildNodes(parent) ==
    IF parent.depth = MAX_DEPTH THEN <<>>
    ELSE LET pos == ChildNodePositions(parent)
             childOf(i) == CreateChildNodeAtPosition(parent, pos[i].x, pos[i].y,
                               parent.w \div 2, parent.h \div 2, {0, 1})
             emit(i) == CHOOSE pushed \in
                          { IF c.shouldBeInGraph THEN <<c>>
                            ELSE IF Cardinality(c.availableZ) = 1 THEN <<>>
                            ELSE GetZSubdivisionChildNodes(c) : c \in {childOf(i)} } : TRUE
         IN emit(1) \o emit(2) \o emit(3) \o emit(4)

ShouldNodeBeXYSubdividedAnyDepth(node) ==
    IF node.containsTarget THEN TRUE
    ELSE IF node.containsObstacle /\ ~node.completelyInsideObstacle THEN TRUE
    ELSE IF Cardinality(node.availableZ) = 1 THEN TRUE
    ELSE FALSE

ShouldNodeBeXYSubdivided(node) ==
    IF node.depth >= MAX_DEPTH THEN FALSE
    ELSE IF node.containsTarget THEN TRUE
    ELSE IF node.containsObstacle /\ ~node.completelyInsideObstacle THEN TRUE
    ELSE IF Cardinality(node.availableZ) = 1 THEN TRUE
    ELSE FALSE

\* what one new node contributes to finishedNodes in _step
FinishedFromKeepWhole(newNode) ==
    IF ShouldNodeBeXYSubdivided(newNode) THEN <<>>
    ELSE IF ~newNode.containsObstacle THEN <<newNode>>
    ELSE IF newNode.containsTarget THEN <<newNode>>
    ELSE IF newNode.containsObstacle /\ Cardinality(newNode.availableZ) > 1
         THEN <<newNode>>
    ELSE <<>>

FinishedFrom(newNode) ==
    IF ShouldNodeBeXYSubdivided(newNode) THEN <<>>
    ELSE IF ~newNode.containsObstacle THEN <<newNode>>
    ELSE IF newNode.containsTarget THEN <<newNode>>
    ELSE IF newNode.containsObstacle /\ Cardinality(newNode.availableZ) > 1
         THEN GetZSubdivisionChildNodes(newNode)
    ELSE <<>>

UnfinishedFrom(newNode) ==
    IF ShouldNodeBeXYSubdivided(newNode) THEN <<newNode>> ELSE <<>>

\* a new node for which no branch of the loop in _step applies
DroppedFrom(newNode) ==
    IF ShouldNodeBeXYSubdivided(newNode) THEN <<>>
    ELSE IF ~newNode.containsObstacle THEN <<>>
    ELSE IF newNode.containsTarget THEN <<>>
    ELSE IF newNode.containsObstacle /\ Cardinality(newNode.availableZ) > 1 THEN <<>>
    ELSE <<newNode>>

\* The root cell: the board's bounds, availableZ = [0,1], depth 0
RootNode ==
    [cx |-> BoardSize \div 2, cy |-> BoardSize \div 2, w |-> BoardSize, h |-> BoardSize,
     availableZ |-> {0, 1}, depth |-> 0,
     parent |-> [cx |-> BoardSize \div 2, cy |-> BoardSize \div 2,
                 w |-> BoardSize, h |-> BoardSize, availableZ |-> {0, 1}],
     containsObstacle |-> FALSE, containsTarget |-> FALSE, target |-> 0,
     completelyInsideObstacle |-> FALSE, shouldBeInGraph |-> TRUE]

\* Obstacles the explored boards are assembled from
ObstacleChoices ==
    { [minX |-> 0, maxX |-> 8, minY |-> 0, maxY |-> 8, zLayers |-> {0}],
      [minX |-> 1, maxX |-> 5, minY |-> 1, maxY |-> 5, zLayers |-> {1}],
      [minX |-> 6, maxX |-> 14, minY |-> 6, maxY |-> 14, zLayers |-> {0, 1}],
      [minX |-> 8, maxX |-> 16, minY |-> 0, maxY |-> 6, zLayers |-> {0}],
      [minX |-> 8, maxX |-> 12, minY |-> 8, maxY |-> 16, zLayers |-> {1}],
      [minX |-> 0, maxX |-> 4, minY |-> 12, maxY |-> 16, zLayers |-> {0, 1}] }

\* Connection endpoints the explored boards are assembled from
TargetChoices ==
    { [x |-> 1, y |-> 1, availableZ |-> {0}],
      [x |-> 10, y |-> 10, availableZ |-> {1}],
      [x |-> 8, y |-> 8, availableZ |-> {0}],
      [x |-> 3, y |-> 13, availableZ |-> {1}],
      [x |-> 7, y |-> 12, availableZ |-> {0, 1}] }

TargetSeqs ==
    {s \in UNION {[1..k -> TargetChoices] : k \in 0..MaxTargets} :
        \A i, j \in 1..Len(s) : i # j => s[i] # s[j]}

UnravelIdle ==
    /\ sectionInput = NoCandidate
    /\ unravelSection = NoCandidate
    /\ candidates = <<>>
    /\ visitedHashes = {}
    /\ lastProcessedCandidate = NoCandidate
    /\ bestCandidate = NoCandidate
    /\ originalCandidate = NoCandidate
    /\ unravelSolved = FALSE
    /\ lastStep = NoCandidate
    /\ poppedCandidates = <<>>
    /\ createdCandidates = <<>>
    /\ unravelFailed = FALSE

InitMesh ==
    /\ MAX_DEPTH \in 1..MaxCapacityDepth
    /\ srjObstacles \in {s \in SUBSET ObstacleChoices : Cardinality(s) <= MaxObstacles}
    /\ targets \in TargetSeqs
    /\ unfinishedNodes = <<RootNode>>
    /\ finishedNodes = <<>>
    /\ meshSolved = FALSE
    /\ droppedNodes = <<>>
    /\ UnravelIdle
    /\ IntraIdle

\* CapacityMeshNodeSolver2_NodeUnderObstacle._step
MeshStep ==
    /\ ~meshSolved
    /\ IF unfinishedNodes = <<>>
       THEN /\ meshSolved' = TRUE
            /\ UNCHANGED <<unfinishedNodes, finishedNodes, droppedNodes>>
       ELSE \E newNodes \in {GetChildNodes(unfinishedNodes[Len(unfinishedNodes)])} :
               LET rest == SubSeq(unfinishedNodes, 1, Len(unfinishedNodes) - 1)
                   unfinishedNewNodes ==
                       FlattenSeq([i \in 1..Len(newNodes) |-> UnfinishedFrom(newNodes[i])])
                   finishedNewNodes ==
                       FlattenSeq([i \in 1..Len(newNodes) |-> FinishedFrom(newNodes[i])])
               IN /\ unfinishedNodes' = rest \o unfinishedNewNodes
                  /\ finishedNodes' = finishedNodes \o finishedNewNodes
                  /\ droppedNodes' = droppedNodes \o
                       FlattenSeq([i \in 1..Len(newNodes) |-> DroppedFrom(newNodes[i])])
                  /\ UNCHANGED meshSolved
    /\ UNCHANGED <<MAX_DEPTH, srjObstacles, targets>>
    /\ UNCHANGED unravelVars
    /\ UNCHANGED intraVars

NextMesh == MeshStep

SpecMesh == InitMesh /\ [][NextMesh]_vars

\* the caller keeps calling step() until the solver is solved
SpecMeshLive == InitMesh /\ [][NextMesh]_vars /\ WF_vars(NextMesh)

(***************************************************************************)
(* Properties of the mesh builder                                          *)
(***************************************************************************)
RetainedNodes == SeqToSet(unfinishedNodes) \cup SeqToSet(finishedNodes)
FinishedSet == SeqToSet(finishedNodes)

\* Unit squares of the board: obstacles and cells have integer corners, so a
\* unit square stands for every point in its interior.
UnitSquares == {[x |-> x, y |-> y] : x \in 0..(BoardSize - 1), y \in 0..(BoardSize - 1)}

SquareInObstacle(u, o) ==
    /\ o.minX <= u.x /\ u.x + 1 <= o.maxX
    /\ o.minY <= u.y /\ u.y + 1 <= o.maxY

ObstructedOnLayer(u, z) ==
    \E o \in srjObstacles : z \in o.zLayers /\ SquareInObstacle(u, o)

NodeCoversSquare(n, u) ==
    /\ NodeMinX(n) <= u.x /\ u.x + 1 <= NodeMaxX(n)
    /\ NodeMinY(n) <= u.y /\ u.y + 1 <= NodeMaxY(n)

NodeInBounds(n) ==
    /\ NodeMinX(n) >= Bounds.minX /\ NodeMaxX(n) <= Bounds.maxX
    /\ NodeMinY(n) >= Bounds.minY /\ NodeMaxY(n) <= Bounds.maxY

\* C2: every finished cell overlaps no obstacle on its layers, or contains a
\* target, or has exactly one layer.
MeshLeafInvariant ==
    \A c \in FinishedSet :
        \/ (~c.containsObstacle /\ ~DoesNodeOverlapObstacle(c))
        \/ c.containsTarget
        \/ Cardinality(c.availableZ) = 1

\* a finished single-layer cell that overlaps an obstacle on its own layer
\* and holds no target: the product of a z-subdivision in _step
MeshLeafWitness ==
    \E c \in FinishedSet :
        /\ c.containsObstacle /\ ~c.containsTarget
        /\ Cardinality(c.availableZ) = 1
        /\ c.depth = MAX_DEPTH + 1

\* C3: no retained cell other than the root is completely inside an obstacle
\* (flag, and recomputed on its layers) unless it contains a target.
NoBlockedCellRetained ==
    \A c \in RetainedNodes :
        c.depth > 0 =>
            \/ c.containsTarget
            \/ (~c.completelyInsideObstacle /\ ~IsNodeCompletelyInsideObstacle(c))

\* a retained single-layer cell whose two-layer rectangle is completely inside
\* an obstacle: one z-subdivision child was kept, its blocked sibling was not
NoBlockedCellWitness ==
    \E c \in RetainedNodes :
        /\ c.depth > 0 /\ ~c.containsTarget
        /\ Cardinality(c.availableZ) = 1
        /\ IsNodeCompletelyInsideObstacle([c EXCEPT !.availableZ = {0, 1}])

\* C4: once the builder has terminated, every unit square that is free on at
\* least one layer lies in the rectangle of some finished cell.
MeshCoverage ==
    meshSolved =>
        \A u \in UnitSquares :
            (\E z \in Layers : ~ObstructedOnLayer(u, z)) =>
                \E c \in FinishedSet : NodeCoversSquare(c, u)

\* C5: once the builder has terminated, every unit square obstructed on
\* exactly one layer and not inside a target-bearing leaf lies in a finished
\* single-layer cell on the free layer.
FreeLayerCellsUnderObstacles ==
    meshSolved =>
        \A u \in UnitSquares : \A z \in Layers :
            ( /\ ObstructedOnLayer(u, 1 - z)
              /\ ~ObstructedOnLayer(u, z)
              /\ ~\E c \in FinishedSet : c.containsTarget /\ NodeCoversSquare(c, u) )
            => \E c \in FinishedSet : c.availableZ = {z} /\ NodeCoversSquare(c, u)

IsQuadrantOf(c, p) ==
    /\ 2 * c.w = p.w /\ 2 * c.h = p.h
    /\ c.cx \in {p.cx - c.w \div 2, p.cx + c.w \div 2}
    /\ c.cy \in {p.cy - c.h \div 2, p.cy + c.h \div 2}
    /\ NodeMinX(c) >= NodeMinX(p) /\ NodeMaxX(c) <= NodeMaxX(p)
    /\ NodeMinY(c) >= NodeMinY(p) /\ NodeMaxY(c) <= NodeMaxY(p)

IsZChildOf(c, p) ==
    /\ c.cx = p.cx /\ c.cy = p.cy /\ c.w = p.w /\ c.h = p.h

\* C6: every retained cell lies inside the board bounds; a cell is either a
\* quadrant of its parent (half size, centred on a quadrant midpoint, inside
\* the parent) or a z-subdivision child with its parent's rectangle.
MeshContainment ==
    \A c \in RetainedNodes :
        /\ NodeInBounds(c)
        /\ c.depth > 0 => (IsQuadrantOf(c, c.parent) \/ IsZChildOf(c, c.parent))

\* both kinds of children are present among the finished cells
MeshContainmentWitness ==
    /\ meshSolved
    /\ \E c \in FinishedSet : c.depth = MAX_DEPTH /\ IsQuadrantOf(c, c.parent)
    /\ \E c \in FinishedSet : IsZChildOf(c, c.parent)

TargetObstructedEverywhere(t) ==
    \A z \in Layers : \E o \in srjObstacles :
        /\ z \in o.zLayers
        /\ o.minX < t.x /\ t.x < o.maxX /\ o.minY < t.y /\ t.y < o.maxY

\* C7: once the builder has terminated, every connection endpoint lies in a
\* finished cell that is marked as containing a target.
TargetsNeverLost ==
    meshSolved =>
        \A i \in 1..Len(targets) :
            \E c \in FinishedSet : c.containsTarget /\ IsPointInRect(targets[i], c)

\* terminated on a board with an endpoint strictly inside obstacles on both layers
TargetsNeverLostWitness ==
    /\ meshSolved
    /\ \E i \in 1..Len(targets) :
          /\ TargetObstructedEverywhere(targets[i])
          /\ \E c \in FinishedSet :
                c.containsTarget /\ c.completelyInsideObstacle /\ IsPointInRect(targets[i], c)

\* C8: a cell that is completely inside an obstacle and contains a target has
\* the availableZ of the target it records and is kept in the graph.
TargetInsideObstacleLayers ==
    \A c \in RetainedNodes :
        (c.completelyInsideObstacle /\ c.containsTarget) =>
            /\ c.availableZ = targets[c.target].availableZ
            /\ c.shouldBeInGraph

\* a finished leaf inside an obstacle whose layers were shrunk to its target's
TargetInsideObstacleWitness ==
    /\ meshSolved
    /\ \E c \in FinishedSet :
          /\ c.completelyInsideObstacle /\ c.containsTarget
          /\ c.availableZ = targets[c.target].availableZ
          /\ c.availableZ # {0, 1}

\* a single-layer cell was xy-subdivided: c is a z-subdivision child of a
\* quadrant, created with availableZ = [0,1], of a z-subdivision child
IsQuadrantOfSingleLayerCell(c) ==
    /\ Cardinality(c.availableZ) = 1
    /\ c.w * Pow2(c.depth) = 4 * BoardSize

\* C17: whatever the board and MAX_DEPTH, repeated _step calls of the mesh
\* builder eventually empty unfinishedNodes and set solved.
MeshTermination == <>(meshSolved /\ unfinishedNodes = <<>>)

MeshTerminationWitness ==
    /\ meshSolved
    /\ unfinishedNodes = <<>>
    /\ \E i \in 1..Len(finishedNodes) : IsQuadrantOfSingleLayerCell(finishedNodes[i])

\* C20: no cell of depth >= MAX_DEPTH is ever on unfinishedNodes, a cell at
\* MAX_DEPTH gets no children from getChildNodes, and no retained cell is
\* deeper than MAX_DEPTH + 1, the depth of a z-subdivision child of a cell at
\* MAX_DEPTH.
MaxDepthBound ==
    srjObstacles # {} \/ unfinishedNodes # <<>> \/ finishedNodes # <<>> =>
        /\ \A i \in 1..Len(unfinishedNodes) : unfinishedNodes[i].depth < MAX_DEPTH
        /\ \A c \in RetainedNodes :
              /\ c.depth <= MAX_DEPTH + 1
              /\ c.depth = MAX_DEPTH => GetChildNodes(c) = <<>>
              /\ c.depth = MAX_DEPTH + 1 => Cardinality(c.availableZ) = 1

\* a z-subdivision child one level below MAX_DEPTH is finished while cells
\* are still waiting to be subdivided
MaxDepthBoundWitness ==
    /\ unfinishedNodes # <<>>
    /\ \E i \in 1..Len(finishedNodes) :
          /\ finishedNodes[i].depth = MAX_DEPTH + 1
          /\ Cardinality(finishedNodes[i].availableZ) = 1
    /\ \E i \in 1..Len(finishedNodes) : finishedNodes[i].depth = MAX_DEPTH

\* the cells handed to the loop of _step when the last unfinished cell is popped
NewNodesOfStep == SeqToSet(GetChildNodes(unfinishedNodes[Len(unfinishedNodes)]))

\* C21: a cell is kept iff _shouldBeInGraph holds: every retained cell has the
\* flag, and every child cell with the flag that a step creates is, after that
\* step, in unfinishedNodes or in finishedNodes, or its z-subdivision children
\* are in finishedNodes in its place.
RetentionIff ==
    [][ (~meshSolved /\ unfinishedNodes # <<>>) =>
          /\ \A c \in NewNodesOfStep :
                c.shouldBeInGraph =>
                   \/ c \in SeqToSet(unfinishedNodes')
                   \/ c \in SeqToSet(finishedNodes')
                   \/ /\ GetZSubdivisionChildNodes(c) # <<>>
                      /\ SeqToSet(GetZSubdivisionChildNodes(c))
                            \subseteq SeqToSet(finishedNodes')
          /\ \A c \in SeqToSet(unfinishedNodes') \cup SeqToSet(finishedNodes') :
                c.shouldBeInGraph ]_vars

\* cells produced by getZSubdivisionChildNodes: they have the rectangle of the
\* cell they were derived from
ZSubdivisionChildren ==
    {c \in RetainedNodes \cup SeqToSet(droppedNodes) : c.depth > 0 /\ IsZChildOf(c, c.parent)}

\* C22: every cell on unfinishedNodes or finishedNodes has a nonempty
\* availableZ within {0, 1}; every cell returned by getZSubdivisionChildNodes
\* has exactly one layer, a layer of the two-layer cell it was derived from;
\* getZSubdivisionChildNodes returns nothing for a single-layer cell.
LayerSetInvariant ==
    /\ \A c \in RetainedNodes : c.availableZ # {} /\ c.availableZ \subseteq {0, 1}
    /\ \A c \in ZSubdivisionChildren :
          /\ Cardinality(c.availableZ) = 1
          /\ c.availableZ \subseteq c.parent.availableZ
          /\ Cardinality(c.parent.availableZ) > 1
    /\ \A c \in RetainedNodes :
          Cardinality(c.availableZ) = 1 => GetZSubdivisionChildNodes(c) = <<>>

\* z-subdivision children of both origins are finished (the free layer of a
\* quadrant blocked on the other layer, made by getChildNodes, and a layer of
\* a leaf that overlaps an obstacle, made by _step), beside a two-layer cell
\* holding a two-layer target inside an obstacle
LayerSetWitness ==
    /\ meshSolved
    /\ \E c \in FinishedSet \cap ZSubdivisionChildren :
          IsNodeCompletelyInsideObstacle([c EXCEPT !.availableZ = {0, 1}])
    /\ \E c \in FinishedSet \cap ZSubdivisionChildren :
          c.depth = MAX_DEPTH + 1 /\ c.containsObstacle
    /\ \E c \in FinishedSet :
          c.completelyInsideObstacle /\ c.containsTarget /\ Cardinality(c.availableZ) = 2

(***************************************************************************)
(*              U N R A V E L   S E C T I O N   S O L V E R                *)
(***************************************************************************)

\* default of the MUTABLE_HOPS field
MUTABLE_HOPS == 1

\* value of an absent x, y or z in a pointModifications entry
Undefined == -1

\* The explored mesh region: four cells in a row, 1 - 2 - 3 - 4, joined by
\* the segments 1 (cells 1,2), 2 (cells 2,3) and 3 (cells 3,4), and a cell 5
\* above cell 3, joined to it by the segment 4.
NodeIdToSegmentIds == << <<1>>, <<1, 2>>, <<2, 3, 4>>, <<3>>, <<4>> >>
SegmentIdToNodeIds == << <<1, 2>>, <<2, 3>>, <<3, 4>>, <<3, 5>> >>

\* getNodesNearNode: the node and every node within `hops` segment hops
RECURSIVE GetNodesNearNode(_, _)
GetNodesNearNode(nodeId, hops) ==
    IF hops = 0 THEN {nodeId}
    ELSE {nodeId} \cup
         UNION { GetNodesNearNode(n, hops - 1) :
                   n \in UNION { SeqToSet(SegmentIdToNodeIds[sId]) :
                                   sId \in SeqToSet(NodeIdToSegmentIds[nodeId]) } }

RECURSIVE SortInts(_)
SortInts(S) ==
    IF S = {} THEN <<>>
    ELSE LET m == CHOOSE a \in S : \A b \in S : a <= b
         IN <<m>> \o SortInts(S \ {m})

\* ---- createUnravelSection ----
\* second pass of createUnravelSection: A and B are neighbours
DirectlyConnectedPoints(points, A, B) ==
    /\ A # B
    /\ points[A].segmentId # points[B].segmentId
    /\ points[A].connectionName = points[B].connectionName
    /\ SeqToSet(SegmentIdToNodeIds[points[A].segmentId])
          \cap SeqToSet(SegmentIdToNodeIds[points[B].segmentId]) # {}

SecondPassStartAtFirst(i) == 1

\* the inner loop of the second pass starts behind the outer index
SecondPassStart(i) == i + 1

\* the loops of the second pass from the indices (i, j) on: lists[A] is
\* A.directlyConnectedSegmentPointIds so far
RECURSIVE ConnectPoints(_, _, _, _)
ConnectPoints(points, lists, i, j) ==
    IF i > Len(points) THEN lists
    ELSE IF j > Len(points)
         THEN ConnectPoints(points, lists, i + 1, SecondPassStart(i + 1))
    ELSE CHOOSE result \in
           { ConnectPoints(points,
                           IF DirectlyConnectedPoints(points, i, j)
                           THEN [l EXCEPT ![i] = Append(@, j), ![j] = Append(@, i)]
                           ELSE l,
                           i, j + 1) : l \in {lists} } : TRUE

\* the SegmentPoint records, SP(i-1) being the i-th assigned point
BuildSegmentPoints(points) ==
    CHOOSE segmentPoints \in
      { [A \in 1..Len(points) |->
          [segmentId |-> points[A].segmentId,
           capacityMeshNodeIds |-> SegmentIdToNodeIds[points[A].segmentId],
           connectionName |-> points[A].connectionName,
           x |-> points[A].x, y |-> points[A].y, z |-> points[A].z,
           directlyConnectedSegmentPointIds |-> lists[A]]] :
        lists \in { ConnectPoints(points, [A \in 1..Len(points) |-> <<>>],
                                  1, SecondPassStart(1)) } } : TRUE

PairAlreadyListedSameOrder(segmentPairs, A, B) ==
    \E k \in 1..Len(segmentPairs) : segmentPairs[k] = <<A, B>>

\* segmentPairs.some(...): the pair is listed in either order
PairAlreadyListed(segmentPairs, A, B) ==
    \E k \in 1..Len(segmentPairs) :
        segmentPairs[k] = <<A, B>> \/ segmentPairs[k] = <<B, A>>

\* the loop over A.directlyConnectedSegmentPointIds from index k on
RECURSIVE AddPairsOfPoint(_, _, _, _, _)
AddPairsOfPoint(segmentPoints, nodeId, segmentPairs, A, k) ==
    IF k > Len(segmentPoints[A].directlyConnectedSegmentPointIds) THEN segmentPairs
    ELSE CHOOSE result \in
           { AddPairsOfPoint(segmentPoints, nodeId,
                 IF /\ B # A
                    /\ nodeId \in SeqToSet(segmentPoints[B].capacityMeshNodeIds)
                    /\ ~PairAlreadyListed(pairs, A, B)
                 THEN Append(pairs, <<A, B>>)
                 ELSE pairs,
                 A, k + 1) :
               pairs \in {segmentPairs},
               B \in {segmentPoints[A].directlyConnectedSegmentPointIds[k]} } : TRUE

\* the loop over the segment points from A on, for the pair list of nodeId
RECURSIVE BuildSegmentPairsFrom(_, _, _, _)
BuildSegmentPairsFrom(segmentPoints, nodeId, segmentPairs, A) ==
    IF A > Len(segmentPoints) THEN segmentPairs
    ELSE CHOOSE result \in
           { BuildSegmentPairsFrom(segmentPoints, nodeId,
                 IF nodeId \in SeqToSet(segmentPoints[A].capacityMeshNodeIds)
                 THEN AddPairsOfPoint(segmentPoints, nodeId, pairs, A, 1)
                 ELSE pairs,
                 A + 1) : pairs \in {segmentPairs} } : TRUE

\* segmentPairsInNode[nodeId], in insertion order
BuildSegmentPairs(segmentPoints, nodeId) ==
    BuildSegmentPairsFrom(segmentPoints, nodeId, <<>>, 1)

BuildMutableSegmentIdsInner(mutableNodeIds) ==
    { sId \in 1..Len(SegmentIdToNodeIds) :
        SeqToSet(SegmentIdToNodeIds[sId]) \subseteq mutableNodeIds }

BuildMutableSegmentIds(mutableNodeIds) ==
    UNION { SeqToSet(NodeIdToSegmentIds[n]) : n \in mutableNodeIds }

CreateUnravelSection(input) ==
    LET mutableNodeIds == GetNodesNearNode(input.rootNodeId, MUTABLE_HOPS)
        allNodeIds == GetNodesNearNode(input.rootNodeId, MUTABLE_HOPS + 1)
        segmentPoints == BuildSegmentPoints(input.segmentPoints)
    IN [allNodeIds |-> allNodeIds,
        mutableNodeIds |-> mutableNodeIds,
        immutableNodeIds |-> allNodeIds \ mutableNodeIds,
        mutableSegmentIds |-> BuildMutableSegmentIds(mutableNodeIds),
        segmentPairsInNode |-> [n \in allNodeIds |-> BuildSegmentPairs(segmentPoints, n)],
        segmentPointMap |-> segmentPoints]

MutableNodeIds == unravelSection.mutableNodeIds
AllNodeIds == unravelSection.allNodeIds
ImmutableNodeIds == unravelSection.immutableNodeIds
MutableSegmentIds == unravelSection.mutableSegmentIds
SegmentPointMap == unravelSection.segmentPointMap
SegmentPointIds == DOMAIN unravelSection.segmentPointMap

SegmentPairsInNode(nodeId) ==
    IF nodeId \in AllNodeIds THEN unravelSection.segmentPairsInNode[nodeId] ELSE <<>>

\* ---- overlay ----
NoModifications == [id \in {} |-> [x |-> Undefined, y |-> Undefined, z |-> Undefined]]

ResolvedPoint(mods, id) ==
    LET o == SegmentPointMap[id]
        has == id \in DOMAIN mods
    IN [x |-> IF has /\ mods[id].x # Undefined THEN mods[id].x ELSE o.x,
        y |-> IF has /\ mods[id].y # Undefined THEN mods[id].y ELSE o.y,
        z |-> IF has /\ mods[id].z # Undefined THEN mods[id].z ELSE o.z,
        segmentId |-> o.segmentId]

GetPointInCandidate(candidate, id) == ResolvedPoint(candidate.pointModifications, id)

ExistingMods(mods, id) ==
    IF id \in DOMAIN mods THEN mods[id]
    ELSE [x |-> Undefined, y |-> Undefined, z |-> Undefined]

SetMods(mods, id, entry) ==
    [k \in (DOMAIN mods) \cup {id} |-> IF k = id THEN entry ELSE mods[k]]

RECURSIVE ChangeLayer(_, _, _)
ChangeLayer(mods, ids, newZ) ==
    IF ids = <<>> THEN mods
    ELSE ChangeLayer(SetMods(mods, Head(ids),
                             [ExistingMods(mods, Head(ids)) EXCEPT !.z = newZ]),
                     Tail(ids), newZ)

ApplyOperationReadingOverlay(mods, operation, candidate) ==
    IF operation.type = "change_layer"
    THEN ChangeLayer(mods, operation.segmentPointIds, operation.newZ)
    ELSE LET X == operation.segmentPointIds[1]
             Y == operation.segmentPointIds[2]
             py == GetPointInCandidate(candidate, Y)
             m1 == SetMods(mods, X, [ExistingMods(mods, X) EXCEPT !.x = py.x, !.y = py.y])
             px == ResolvedPoint(m1, X)
         IN SetMods(m1, Y, [ExistingMods(m1, Y) EXCEPT !.x = px.x, !.y = px.y])

\* applyOperationToPointModifications; positions are read from the candidate
\* the operation is applied to
ApplyOperationToPointModifications(mods, operation, candidate) ==
    IF operation.type = "change_layer"
    THEN ChangeLayer(mods, operation.segmentPointIds, operation.newZ)
    ELSE LET X == operation.segmentPointIds[1]
             Y == operation.segmentPointIds[2]
             px == GetPointInCandidate(candidate, X)
             py == GetPointInCandidate(candidate, Y)
             m1 == SetMods(mods, X, [ExistingMods(mods, X) EXCEPT !.x = py.x, !.y = py.y])
         IN SetMods(m1, Y, [ExistingMods(m1, Y) EXCEPT !.x = px.x, !.y = px.y])

\* createPointModificationsHash: the sorted modification entries
CreatePointModificationsHash(mods) == [kind |-> "mods", entries |-> mods]

\* createFullPointModificationsHash: the resolved state of every point
CreateFullPointModificationsHash(mods) ==
    [kind |-> "full",
     entries |-> [id \in SegmentPointIds |->
                    [x |-> ResolvedPoint(mods, id).x,
                     y |-> ResolvedPoint(mods, id).y,
                     z |-> ResolvedPoint(mods, id).z]]]

\* ---- getIssuesInSection ----
Orient(p, q, r) == (q.x - p.x) * (r.y - p.y) - (q.y - p.y) * (r.x - p.x)

\* strictly interior intersection of the segments a-b and c-d
DoSegmentsIntersect(a, b, c, d) ==
    /\ Orient(a, b, c) * Orient(a, b, d) < 0
    /\ Orient(c, d, a) * Orient(c, d, b) < 0

ViaIssuesInNode(mods, nodeId) ==
    LET pairs == unravelSection.segmentPairsInNode[nodeId]
        one(i) == IF ResolvedPoint(mods, pairs[i][1]).z # ResolvedPoint(mods, pairs[i][2]).z
                  THEN << [type |-> "transition_via", capacityMeshNodeId |-> nodeId,
                           line1 |-> pairs[i], line2 |-> <<>>] >>
                  ELSE <<>>
    IN FlattenSeq([i \in 1..Len(pairs) |-> one(i)])

CrossingIssuesInNode(mods, nodeId) ==
    LET pairs == unravelSection.segmentPairsInNode[nodeId]
        n == Len(pairs)
        P(i, k) == ResolvedPoint(mods, pairs[i][k])
        crosses(i, j) ==
            /\ P(i, 1).z = P(i, 2).z /\ P(j, 1).z = P(j, 2).z /\ P(i, 1).z = P(j, 1).z
            /\ DoSegmentsIntersect(P(i, 1), P(i, 2), P(j, 1), P(j, 2))
        one(i, j) == IF i < j /\ crosses(i, j)
                     THEN << [type |-> "same_layer_crossing", capacityMeshNodeId |-> nodeId,
                              line1 |-> pairs[i], line2 |-> pairs[j]] >>
                     ELSE <<>>
    IN FlattenSeq([i \in 1..n |-> FlattenSeq([j \in 1..n |-> one(i, j)])])

\* issues of one cell: vias first, then crossings
IssuesInNode(mods, nodeId) ==
    ViaIssuesInNode(mods, nodeId) \o CrossingIssuesInNode(mods, nodeId)

GetIssuesInSection(mods) ==
    CHOOSE issues \in
      { FlattenSeq([i \in 1..Len(nodes) |-> perNode[nodes[i]]]) :
          perNode \in { [n \in AllNodeIds |-> IssuesInNode(m, n)] : m \in {mods} },
          nodes \in {SortInts(AllNodeIds)} } : TRUE

\* ---- computeG ----
CountIssues(issues, nodeId, type) ==
    Cardinality({i \in 1..Len(issues) :
        issues[i].capacityMeshNodeId = nodeId /\ issues[i].type = type})

\* estNumVias of a node in hundredths: 0.82 per same-layer crossing, 0.2 per
\* transition via (the two transition-crossing kinds are never detected)
EstNumVias(issues, nodeId) ==
    82 * CountIssues(issues, nodeId, "same_layer_crossing")
    + 20 * CountIssues(issues, nodeId, "transition_via")

RECURSIVE SumOver(_, _)
SumOver(S, issues) ==
    IF S = {} THEN 0
    ELSE LET n == CHOOSE n \in S : TRUE
         IN EstNumVias(issues, n) + SumOver(S \ {n}, issues)

ComputeGPerOperation(issues) == 1 + 82 * Len(issues)

\* The per-node cost getLogProbability((estNumVias/2)^1.1 / capacity) is an
\* increasing function of estNumVias that is 0 at 0; all cells of the explored
\* region have the same capacity and the cost is kept in hundredths of a via.
ComputeG(issues) ==
    CHOOSE g \in { SumOver({iss[i].capacityMeshNodeId : i \in 1..Len(iss)}, iss) :
                     iss \in {issues} } : TRUE

\* ---- candidates ----
CandidateOf(mods, issues, operationsPerformed) ==
    [pointModifications |-> mods, issues |-> issues,
     g |-> ComputeG(issues), h |-> 0, f |-> ComputeG(issues),
     operationsPerformed |-> operationsPerformed,
     candidateHash |-> CreatePointModificationsHash(mods),
     candidateFullHash |-> CreateFullPointModificationsHash(mods)]

MakeCandidate(mods, operationsPerformed) ==
    CHOOSE c \in UNION { { CandidateOf(m, iss, operationsPerformed) :
                              iss \in {GetIssuesInSection(m)} } : m \in {mods} } : TRUE

CreateInitialCandidate == MakeCandidate(NoModifications, 0)

ChangeLayerOp(newZ, ids) ==
    [type |-> "change_layer", newZ |-> newZ, segmentPointIds |-> ids]

SwapOp(ids) ==
    [type |-> "swap_position_on_segment", newZ |-> Undefined, segmentPointIds |-> ids]

Flip(z) == IF z = 0 THEN 1 ELSE 0

ViaOperationsUnfiltered(candidate, issue) ==
    LET A == issue.line1[1]
        B == issue.line1[2]
        pointA == GetPointInCandidate(candidate, A)
        pointB == GetPointInCandidate(candidate, B)
    IN <<ChangeLayerOp(pointB.z, <<A>>), ChangeLayerOp(pointA.z, <<B>>)>>

ViaOperationsBaselineZ(candidate, issue) ==
    LET A == issue.line1[1]
        B == issue.line1[2]
        pointA == SegmentPointMap[A]
        pointB == SegmentPointMap[B]
    IN (IF pointA.segmentId \in MutableSegmentIds
        THEN <<ChangeLayerOp(pointB.z, <<A>>)>> ELSE <<>>)
       \o
       (IF pointB.segmentId \in MutableSegmentIds
        THEN <<ChangeLayerOp(pointA.z, <<B>>)>> ELSE <<>>)

ViaOperations(candidate, issue) ==
    LET A == issue.line1[1]
        B == issue.line1[2]
        pointA == GetPointInCandidate(candidate, A)
        pointB == GetPointInCandidate(candidate, B)
    IN (IF pointA.segmentId \in MutableSegmentIds
        THEN <<ChangeLayerOp(pointB.z, <<A>>)>> ELSE <<>>)
       \o
       (IF pointB.segmentId \in MutableSegmentIds
        THEN <<ChangeLayerOp(pointA.z, <<B>>)>> ELSE <<>>)

CrossingOperationsSwapAcrossSegments(candidate, issue) ==
    LET APointId == issue.line1[1]
        BPointId == issue.line1[2]
        CPointId == issue.line2[1]
        DPointId == issue.line2[2]
        A == SegmentPointMap[APointId]
        C == SegmentPointMap[CPointId]
    IN << SwapOp(<<APointId, CPointId>>), SwapOp(<<APointId, DPointId>>),
          SwapOp(<<BPointId, CPointId>>), SwapOp(<<BPointId, DPointId>>),
          ChangeLayerOp(Flip(A.z), <<APointId, BPointId>>),
          ChangeLayerOp(Flip(C.z), <<CPointId, DPointId>>) >>

CrossingOperationsSinglesOnly(candidate, issue) ==
    LET APointId == issue.line1[1]
        BPointId == issue.line1[2]
        CPointId == issue.line2[1]
        DPointId == issue.line2[2]
        A == SegmentPointMap[APointId]
        B == SegmentPointMap[BPointId]
        C == SegmentPointMap[CPointId]
        D == SegmentPointMap[DPointId]
    IN << ChangeLayerOp(Flip(A.z), <<APointId>>),
          ChangeLayerOp(Flip(B.z), <<BPointId>>),
          ChangeLayerOp(Flip(C.z), <<CPointId>>),
          ChangeLayerOp(Flip(D.z), <<DPointId>>) >>

CrossingOperations(candidate, issue) ==
    LET APointId == issue.line1[1]
        BPointId == issue.line1[2]
        CPointId == issue.line2[1]
        DPointId == issue.line2[2]
        A == SegmentPointMap[APointId]
        B == SegmentPointMap[BPointId]
        C == SegmentPointMap[CPointId]
        D == SegmentPointMap[DPointId]
        shared(X, Y, XId, YId) ==
            IF X.segmentId = Y.segmentId THEN <<SwapOp(<<XId, YId>>)>> ELSE <<>>
    IN shared(A, C, APointId, CPointId) \o shared(A, D, APointId, DPointId)
       \o shared(B, C, BPointId, CPointId) \o shared(B, D, BPointId, DPointId)
       \o << ChangeLayerOp(Flip(A.z), <<APointId, BPointId>>),
             ChangeLayerOp(Flip(C.z), <<CPointId, DPointId>>),
             ChangeLayerOp(Flip(A.z), <<APointId>>),
             ChangeLayerOp(Flip(B.z), <<BPointId>>),
             ChangeLayerOp(Flip(C.z), <<CPointId>>),
             ChangeLayerOp(Flip(D.z), <<DPointId>>) >>

GetOperationsForIssue(candidate, issue) ==
    IF issue.type = "transition_via" THEN ViaOperations(candidate, issue)
    ELSE IF issue.type = "same_layer_crossing" THEN CrossingOperations(candidate, issue)
    ELSE <<>>

GetNeighborDroppingParentMap(currentCandidate, operation) ==
    MakeCandidate(
        ApplyOperationToPointModifications(NoModifications, operation, currentCandidate),
        currentCandidate.operationsPerformed + 1)

GetNeighborResolvingBaseline(currentCandidate, operation) ==
    MakeCandidate(
        ApplyOperationToPointModifications(currentCandidate.pointModifications,
                                           operation, originalCandidate),
        currentCandidate.operationsPerformed + 1)

GetNeighborWithParentIssues(currentCandidate, operation) ==
    CandidateOf(
        ApplyOperationToPointModifications(currentCandidate.pointModifications,
                                           operation, currentCandidate),
        currentCandidate.issues,
        currentCandidate.operationsPerformed + 1)

GetNeighborByApplyingOperation(currentCandidate, operation) ==
    MakeCandidate(
        ApplyOperationToPointModifications(currentCandidate.pointModifications,
                                           operation, currentCandidate),
        currentCandidate.operationsPerformed + 1)

GetNeighborOperationsForCandidate(candidate) ==
    FlattenSeq([i \in 1..Len(candidate.issues) |->
                   GetOperationsForIssue(candidate, candidate.issues[i])])

GetNeighbors(candidate) ==
    CHOOSE neighbors \in
      { [i \in 1..Len(operations) |-> GetNeighborByApplyingOperation(c, operations[i])] :
          c \in {candidate},
          operations \in {GetNeighborOperationsForCandidate(candidate)} } : TRUE

IsExploredPartialOnly(neighbor, visited) ==
    neighbor.candidateHash \in visited

\* whether _step skips a neighbour, given the visited set at that moment
IsExplored(neighbor, visited) ==
    \/ neighbor.candidateHash \in visited
    \/ neighbor.candidateFullHash \in visited

\* one iteration of the forEach of _step on the neighbour nb
EnqueueNeighbor(nb, acc) ==
    LET skip == IsExplored(nb, acc.visited)
        entry == [candidateHash |-> nb.candidateHash,
                  candidateFullHash |-> nb.candidateFullHash,
                  pointModifications |-> nb.pointModifications,
                  issues |-> nb.issues,
                  enqueued |-> ~skip]
    IN IF skip
       THEN [acc EXCEPT !.log = Append(@, entry)]
       ELSE [visited |-> acc.visited \cup {nb.candidateHash, nb.candidateFullHash},
             pushed |-> Append(acc.pushed, nb),
             log |-> Append(acc.log, entry)]

\* the forEach of _step: acc = [visited, pushed, log]
RECURSIVE EnqueueNeighbors(_, _)
EnqueueNeighbors(neighbors, acc) ==
    IF neighbors = <<>> THEN acc
    ELSE CHOOSE result \in
           { EnqueueNeighbors(Tail(nbs), EnqueueNeighbor(Head(nbs), a)) :
               nbs \in {neighbors}, a \in {acc} } : TRUE

\* history of every candidate built: for each modification map, the issue
\* lists and costs computed for it and the candidates they were derived from
RECURSIVE RecordCreated(_, _, _)
RecordCreated(created, newCandidates, parent) ==
    IF newCandidates = <<>> THEN created
    ELSE CHOOSE result \in
           { LET c == Head(cs)
                 m == c.pointModifications
                 rec == [issues |-> c.issues, g |-> c.g,
                         parent |-> IF parent = NoCandidate THEN NoCandidate
                                    ELSE parent.pointModifications]
                 old == IF m \in DOMAIN cr THEN cr[m] ELSE {}
             IN RecordCreated([k \in (DOMAIN cr) \cup {m} |->
                                  IF k = m THEN old \cup {rec} ELSE cr[k]],
                              Tail(cs), parent) :
               cr \in {created}, cs \in {newCandidates} } : TRUE

MeshIdle ==
    /\ MAX_DEPTH = 1
    /\ srjObstacles = {}
    /\ targets = <<>>
    /\ unfinishedNodes = <<>>
    /\ finishedNodes = <<>>
    /\ meshSolved = FALSE
    /\ droppedNodes = <<>>

\* Crossing points of the explored sections: connection "a" crosses the three
\* segments, connection "b" the segments 2 and 3; on a shared segment the two
\* points sit at heights 1 and 3 in either order, each point on either layer.
SegmentXOf(segmentId) == 4 * segmentId

ChainPoints(y2, y3, zs) ==
    << [segmentId |-> 1, connectionName |-> "a", x |-> SegmentXOf(1), y |-> 1, z |-> zs[1]],
       [segmentId |-> 2, connectionName |-> "a", x |-> SegmentXOf(2), y |-> y2, z |-> zs[2]],
       [segmentId |-> 2, connectionName |-> "b", x |-> SegmentXOf(2), y |-> 4 - y2, z |-> zs[3]],
       [segmentId |-> 3, connectionName |-> "a", x |-> SegmentXOf(3), y |-> y3, z |-> zs[4]],
       [segmentId |-> 3, connectionName |-> "b", x |-> SegmentXOf(3), y |-> 4 - y3, z |-> zs[5]] >>

\* connection "c" runs along the upper edge of cell 3, from the end of
\* segment 3 (on layer 0) to the middle of segment 4 (on either layer)
SpurPoints(zs) ==
    << [segmentId |-> 3, connectionName |-> "c", x |-> SegmentXOf(3), y |-> 4, z |-> zs[6]],
       [segmentId |-> 4, connectionName |-> "c", x |-> SegmentXOf(3) - 2, y |-> 4, z |-> zs[7]] >>

ChainInputs ==
    { [rootNodeId |-> r, segmentPoints |-> ChainPoints(y2, y3, zs)] :
      r \in {1, 2}, y2 \in {1, 3}, y3 \in {1, 3}, zs \in [1..5 -> Layers] }

SpurInputs ==
    { [rootNodeId |-> r, segmentPoints |-> ChainPoints(y2, y3, zs) \o SpurPoints(zs)] :
      r \in {1, 2}, y2 \in {1, 3}, y3 \in {1, 3},
      zs \in {z \in [1..7 -> Layers] : z[6] = 0} }

\* connections "a" and "b" alone, each crossing the segments 2 and 3
CrossPoints(y2, y3, zs) ==
    << [segmentId |-> 2, connectionName |-> "a", x |-> SegmentXOf(2), y |-> y2, z |-> zs[1]],
       [segmentId |-> 2, connectionName |-> "b", x |-> SegmentXOf(2), y |-> 4 - y2, z |-> zs[2]],
       [segmentId |-> 3, connectionName |-> "a", x |-> SegmentXOf(3), y |-> y3, z |-> zs[3]],
       [segmentId |-> 3, connectionName |-> "b", x |-> SegmentXOf(3), y |-> 4 - y3, z |-> zs[4]] >>

CrossInputs ==
    { [rootNodeId |-> r, segmentPoints |-> CrossPoints(y2, y3, zs)] :
      r \in {2, 3}, y2 \in {1, 3}, y3 \in {1, 3}, zs \in [1..4 -> Layers] }

SectionInputs == ChainInputs \cup SpurInputs \cup CrossInputs

InitUnravel ==
    /\ sectionInput \in SectionInputs
    /\ unravelSection = CreateUnravelSection(sectionInput)
    /\ originalCandidate = CreateInitialCandidate
    /\ candidates = <<CreateInitialCandidate>>
    /\ visitedHashes = {}
    /\ lastProcessedCandidate = NoCandidate
    /\ bestCandidate = NoCandidate
    /\ unravelSolved = FALSE
    /\ lastStep = [visitedBefore |-> {}, log |-> <<>>]
    /\ poppedCandidates = <<>>
    /\ createdCandidates = RecordCreated(<<>>, <<originalCandidate>>, NoCandidate)
    /\ unravelFailed = FALSE
    /\ MeshIdle
    /\ IntraIdle

NextBestCandidateResolvedOnly(candidate, best) ==
    IF candidate.issues = <<>> /\ (best = NoCandidate \/ candidate.f < best.f)
    THEN candidate ELSE best

NextBestCandidateLatest(candidate, best) ==
    IF best = NoCandidate \/ candidate.f <= best.f THEN candidate ELSE best

\* candidate.f < (this.bestCandidate?.f ?? Infinity)
NextBestCandidate(candidate, best) ==
    IF best = NoCandidate \/ candidate.f < best.f THEN candidate ELSE best

CandidatesAfterStepPushFront(queue, pushed) == pushed \o Tail(queue)

\* this.candidates after a step: the head was shifted off, the neighbours
\* that passed the visited filter were pushed at the end
CandidatesAfterStep(queue, pushed) == Tail(queue) \o pushed

\* UnravelSectionSolver._step
UnravelStep ==
    /\ ~unravelSolved
    /\ IF candidates = <<>>
       THEN /\ unravelSolved' = TRUE
            /\ UNCHANGED <<candidates, visitedHashes, lastProcessedCandidate,
                           bestCandidate, lastStep, poppedCandidates,
                           createdCandidates>>
       ELSE \E candidate \in {Head(candidates)} :
            \E neighbors \in {GetNeighbors(candidate)} :
            \E acc \in {EnqueueNeighbors(neighbors,
                          [visited |-> visitedHashes, pushed |-> <<>>, log |-> <<>>])} :
               /\ lastProcessedCandidate' = candidate
               /\ bestCandidate' = NextBestCandidate(candidate, bestCandidate)
               /\ poppedCandidates' = Append(poppedCandidates, candidate)
               /\ createdCandidates' = RecordCreated(createdCandidates, neighbors, candidate)
               /\ visitedHashes' = acc.visited
               /\ candidates' = CandidatesAfterStep(candidates, acc.pushed)
               /\ lastStep' = [visitedBefore |-> visitedHashes, log |-> acc.log]
               /\ UNCHANGED unravelSolved
    /\ UNCHANGED <<sectionInput, unravelSection, originalCandidate, unravelFailed>>
    /\ UNCHANGED meshVars
    /\ UNCHANGED intraVars

NextUnravelStalled == UnravelStep /\ candidates # <<>>

NextUnravel == UnravelStep

SpecUnravel == InitUnravel /\ [][NextUnravel]_vars

\* the caller keeps calling step() until the solver is solved
SpecUnravelLive == InitUnravel /\ [][NextUnravel]_vars /\ WF_vars(NextUnravel)

\* ---- properties of the unravel search ----
\* every candidate the solver currently holds
HeldCandidates ==
    SeqToSet(candidates)
    \cup ({originalCandidate, lastProcessedCandidate, bestCandidate} \ {NoCandidate})

ModifiedSegmentIds(candidate) ==
    { SegmentPointMap[id].segmentId : id \in DOMAIN candidate.pointModifications }

\* C1: in every candidate the solver creates, every segment-point id that is a
\* key of pointModifications lies on a segment of unravelSection.mutableSegmentIds.
SectionLocality ==
    sectionInput # NoCandidate =>
        \A c \in HeldCandidates : ModifiedSegmentIds(c) \subseteq MutableSegmentIds

\* C9: a neighbour whose fully-resolved point state equals that of a candidate
\* already enqueued or expanded, the initial candidate included, is never
\* enqueued: no queued candidate other than the initial one carries the
\* initial candidate's full-state hash.
FullStateDedup ==
    sectionInput # NoCandidate =>
        \A i \in 1..Len(candidates) :
            candidates[i] # originalCandidate
                => candidates[i].candidateFullHash # originalCandidate.candidateFullHash

\* hashes in the visited set when the i-th neighbour of the last step was examined
SeenBefore(i) ==
    lastStep.visitedBefore
    \cup UNION { {lastStep.log[j].candidateHash, lastStep.log[j].candidateFullHash} :
                   j \in { k \in 1..(i - 1) : lastStep.log[k].enqueued } }

IsEnqueuedEntry(entry) == entry.enqueued

EnqueuedInLastStep == SelectSeq(lastStep.log, IsEnqueuedEntry)

\* C10: in every _step a neighbour is enqueued only if neither of its hashes
\* was in the visited set when it was examined; once enqueued both hashes are
\* in the set and the neighbour is at the tail of the queue; of two neighbours
\* of one expansion with equal hashes only the first can be enqueued.
VisitedSetFilter ==
    sectionInput # NoCandidate =>
        LET log == lastStep.log
            enq == EnqueuedInLastStep
            base == Len(candidates) - Len(enq)
        IN /\ \A i \in 1..Len(log) :
                  /\ log[i].enqueued =>
                        /\ log[i].candidateHash \notin SeenBefore(i)
                        /\ log[i].candidateFullHash \notin SeenBefore(i)
                        /\ log[i].candidateHash \in visitedHashes
                        /\ log[i].candidateFullHash \in visitedHashes
                  /\ \A j \in (i + 1)..Len(log) :
                        (\/ log[j].candidateHash = log[i].candidateHash
                         \/ log[j].candidateFullHash = log[i].candidateFullHash)
                            => ~(log[i].enqueued /\ log[j].enqueued)
           /\ base >= 0
           /\ \A k \in 1..Len(enq) :
                  /\ candidates[base + k].candidateHash = enq[k].candidateHash
                  /\ candidates[base + k].candidateFullHash = enq[k].candidateFullHash

\* an expansion that enqueued one neighbour, rejected a later one with the
\* same hashes, and rejected one whose full-state hash alone was known
VisitedSetFilterWitness ==
    /\ sectionInput # NoCandidate
    /\ \E i, j \in 1..Len(lastStep.log) :
          /\ i < j
          /\ lastStep.log[i].enqueued
          /\ ~lastStep.log[j].enqueued
          /\ lastStep.log[j].candidateHash = lastStep.log[i].candidateHash
    /\ \E i \in 1..Len(lastStep.log) :
          /\ ~lastStep.log[i].enqueued
          /\ lastStep.log[i].candidateHash \notin SeenBefore(i)
          /\ lastStep.log[i].candidateFullHash \in SeenBefore(i)

\* C11: after every _step that popped a candidate, lastProcessedCandidate is
\* the popped candidate and bestCandidate is the earliest popped candidate of
\* least f among all candidates popped so far (so its f is at most the
\* original candidate's); at termination it is the least-f expanded candidate.
BestCandidateInvariant ==
    (sectionInput # NoCandidate /\ poppedCandidates # <<>>) =>
        /\ lastProcessedCandidate = poppedCandidates[Len(poppedCandidates)]
        /\ poppedCandidates[1] = originalCandidate
        /\ bestCandidate # NoCandidate
        /\ bestCandidate.f <= originalCandidate.f
        /\ \E i \in 1..Len(poppedCandidates) :
              /\ bestCandidate = poppedCandidates[i]
              /\ \A j \in 1..Len(poppedCandidates) :
                    poppedCandidates[i].f <= poppedCandidates[j].f
              /\ \A j \in 1..(i - 1) :
                    poppedCandidates[j].f > poppedCandidates[i].f

\* a finished search whose best candidate was popped neither first nor last
\* and was followed by a candidate of the same f
BestCandidateWitness ==
    /\ sectionInput # NoCandidate
    /\ unravelSolved
    /\ \E i, j \in 2..Len(poppedCandidates) :
          /\ i < j
          /\ bestCandidate = poppedCandidates[i]
          /\ poppedCandidates[j] # bestCandidate
          /\ poppedCandidates[j].f = bestCandidate.f
          /\ bestCandidate.f < originalCandidate.f

IsImmutableVia(issue) ==
    /\ issue.type = "transition_via"
    /\ SegmentPointMap[issue.line1[1]].segmentId \notin MutableSegmentIds
    /\ SegmentPointMap[issue.line1[2]].segmentId \notin MutableSegmentIds

\* the initial candidate has issues and all of them are transition vias
\* between two points of immutable segments
UnresolvableViaCase ==
    /\ sectionInput # NoCandidate
    /\ originalCandidate.issues # <<>>
    /\ \A i \in 1..Len(originalCandidate.issues) : IsImmutableVia(originalCandidate.issues[i])

\* C12: when the initial candidate's only issues are transition vias whose
\* two endpoints both lie outside mutableSegmentIds, the first _step enqueues
\* no neighbour, the next _step sets solved, and bestCandidate is then the
\* original candidate with an empty modification map.
UnresolvableVia ==
    [][ UnresolvableViaCase =>
          IF poppedCandidates = <<>>
          THEN /\ poppedCandidates' = <<originalCandidate>>
               /\ lastStep'.log = <<>>
               /\ candidates' = <<>>
               /\ ~unravelSolved'
          ELSE /\ unravelSolved'
               /\ poppedCandidates' = poppedCandidates
               /\ bestCandidate' = originalCandidate
               /\ bestCandidate'.pointModifications = NoModifications ]_vars

UnresolvableViaWitness ==
    /\ UnresolvableViaCase
    /\ unravelSolved
    /\ bestCandidate = originalCandidate
    /\ Len(poppedCandidates) = 1

AllSegmentPairs ==
    UNION { SeqToSet(SegmentPairsInNode(n)) : n \in AllNodeIds }

\* exactly four points forming two connected pairs in one cell, all on
\* layer 0 and on mutable segments, whose straight lines cross
TrivialCrossingCase ==
    /\ sectionInput # NoCandidate
    /\ Len(sectionInput.segmentPoints) = 4
    /\ Cardinality(AllSegmentPairs) = 2
    /\ \E n \in AllNodeIds :
          /\ Len(SegmentPairsInNode(n)) = 2
          /\ LET l1 == SegmentPairsInNode(n)[1]
                 l2 == SegmentPairsInNode(n)[2]
             IN DoSegmentsIntersect(SegmentPointMap[l1[1]], SegmentPointMap[l1[2]],
                                    SegmentPointMap[l2[1]], SegmentPointMap[l2[2]])
    /\ \A id \in SegmentPointIds :
          /\ SegmentPointMap[id].z = 0
          /\ SegmentPointMap[id].segmentId \in MutableSegmentIds

IsSwapOrSegmentFlip(operation) ==
    \/ operation.type = "swap_position_on_segment"
    \/ operation.type = "change_layer" /\ Len(operation.segmentPointIds) = 2

\* C13: for two connected pairs crossing on layer 0 in one cell the initial
\* candidate has exactly one same_layer_crossing issue, a swap or
\* whole-segment flip derived from it gives a neighbour without issues, that
\* neighbour is enqueued by the first _step, and the best candidate at
\* termination has no issues.
TrivialCrossing ==
    TrivialCrossingCase =>
        /\ Len(originalCandidate.issues) = 1
        /\ originalCandidate.issues[1].type = "same_layer_crossing"
        /\ \E op \in SeqToSet(GetNeighborOperationsForCandidate(originalCandidate)) :
              /\ IsSwapOrSegmentFlip(op)
              /\ GetNeighborByApplyingOperation(originalCandidate, op).issues = <<>>
        /\ Len(poppedCandidates) = 1 =>
              \E i \in 1..Len(candidates) : candidates[i].issues = <<>>
        /\ unravelSolved =>
              /\ bestCandidate # NoCandidate
              /\ bestCandidate.issues = <<>>
              /\ bestCandidate # originalCandidate

TrivialCrossingWitness ==
    /\ TrivialCrossingCase
    /\ unravelSolved
    /\ bestCandidate.issues = <<>>
    /\ Len(poppedCandidates) > 1

SameSegmentPointPairs ==
    { <<X, Y>> \in SegmentPointIds \X SegmentPointIds :
        X # Y /\ SegmentPointMap[X].segmentId = SegmentPointMap[Y].segmentId }

\* swapping X and Y twice from candidate c restores both positions and
\* neither swap changes a layer
SwapTwiceRestores(c, X, Y) ==
    LET once == GetNeighborByApplyingOperation(c, SwapOp(<<X, Y>>))
        twice == GetNeighborByApplyingOperation(once, SwapOp(<<X, Y>>))
    IN /\ \A P \in {X, Y} :
             /\ GetPointInCandidate(twice, P).x = GetPointInCandidate(c, P).x
             /\ GetPointInCandidate(twice, P).y = GetPointInCandidate(c, P).y
             /\ GetPointInCandidate(once, P).z = GetPointInCandidate(c, P).z
             /\ GetPointInCandidate(twice, P).z = GetPointInCandidate(c, P).z
       /\ GetPointInCandidate(once, X).x = GetPointInCandidate(c, Y).x
       /\ GetPointInCandidate(once, X).y = GetPointInCandidate(c, Y).y
       /\ GetPointInCandidate(once, Y).x = GetPointInCandidate(c, X).x
       /\ GetPointInCandidate(once, Y).y = GetPointInCandidate(c, X).y

\* C14: for the original candidate and every expanded candidate c and any two
\* points X, Y of one segment, swap_position_on_segment([X,Y]) applied twice
\* gives back the resolved (x,y) that X and Y have in c, and the resolved z of
\* both points is the same before and after each swap.
SwapInvolution ==
    sectionInput # NoCandidate =>
        \A c \in {originalCandidate, lastProcessedCandidate} \ {NoCandidate} :
            \A pair \in SameSegmentPointPairs : SwapTwiceRestores(c, pair[1], pair[2])

\* an expanded candidate in which two points of one segment have already
\* traded places and one of them has changed layer
SwapInvolutionWitness ==
    /\ sectionInput # NoCandidate
    /\ lastProcessedCandidate # NoCandidate
    /\ \E pair \in SameSegmentPointPairs :
          /\ pair[1] \in DOMAIN lastProcessedCandidate.pointModifications
          /\ lastProcessedCandidate.pointModifications[pair[1]].y # Undefined
          /\ lastProcessedCandidate.pointModifications[pair[1]].z # Undefined
          /\ GetPointInCandidate(lastProcessedCandidate, pair[1]).y
                # SegmentPointMap[pair[1]].y
          /\ GetPointInCandidate(lastProcessedCandidate, pair[1]).z
                # SegmentPointMap[pair[1]].z

\* C15: computeG of an empty issue list is 0, so every candidate without
\* issues has g = h = f = 0; every candidate has h = 0 and f = g.
ZeroCostUnderZeroIssues ==
    sectionInput # NoCandidate =>
        /\ ComputeG(<<>>) = 0
        /\ \A c \in HeldCandidates :
              /\ c.h = 0
              /\ c.f = c.g
              /\ c.g = ComputeG(c.issues)
              /\ c.issues = <<>> => (c.g = 0 /\ c.f = 0)

\* the queue holds a modified candidate without issues next to one with a
\* positive cost
ZeroCostWitness ==
    /\ sectionInput # NoCandidate
    /\ \E i, j \in 1..Len(candidates) :
          /\ candidates[i].issues = <<>>
          /\ candidates[i].pointModifications # NoModifications
          /\ candidates[i].operationsPerformed > 1
          /\ candidates[j].issues # <<>>
          /\ candidates[j].g > 0

\* C16: the issues of every candidate built are getIssuesInSection of its own
\* pointModifications, and all candidates built with the same
\* pointModifications, by whatever operation history, were given the same
\* issue list and the same g.
IssuesPureFunctionOfOverlay ==
    sectionInput # NoCandidate =>
        /\ \A c \in HeldCandidates : c.issues = GetIssuesInSection(c.pointModifications)
        /\ \A i \in 1..Len(lastStep.log) :
              lastStep.log[i].issues = GetIssuesInSection(lastStep.log[i].pointModifications)
        /\ \A m \in DOMAIN createdCandidates :
              \A r1, r2 \in createdCandidates[m] :
                  r1.issues = r2.issues /\ r1.g = r2.g

\* a modification map with issues that was built from two different parents
IssuesPureWitness ==
    /\ sectionInput # NoCandidate
    /\ \E m \in DOMAIN createdCandidates :
          /\ \E r1, r2 \in createdCandidates[m] :
                r1.parent # r2.parent /\ r1.issues # <<>>
          /\ \E i \in 1..Len(lastStep.log) :
                lastStep.log[i].pointModifications = m /\ ~lastStep.log[i].enqueued

\* C18: repeated _step calls of the unravel solver eventually empty the
\* candidate queue and set solved.
UnravelTermination == <>(unravelSolved /\ candidates = <<>>)

\* a finished search that expanded more candidates than the initial one and
\* rejected neighbours through the visited set
UnravelTerminationWitness ==
    /\ sectionInput # NoCandidate
    /\ unravelSolved
    /\ candidates = <<>>
    /\ Len(poppedCandidates) > 3
    /\ \E m \in DOMAIN createdCandidates : Cardinality(createdCandidates[m]) > 1

\* C19: _step never sets failed or an error; a _step that finds the queue
\* empty sets solved and leaves bestCandidate alone, and once solved the
\* result is an expanded candidate, whether or not it still has issues.
StagnationIsNotAnError ==
    /\ [](sectionInput # NoCandidate =>
            /\ ~unravelFailed
            /\ unravelSolved =>
                  /\ candidates = <<>>
                  /\ bestCandidate # NoCandidate
                  /\ \E i \in 1..Len(poppedCandidates) : bestCandidate = poppedCandidates[i])
    /\ [][ (candidates = <<>> /\ ~unravelSolved) =>
              (unravelSolved' /\ ~unravelFailed' /\ bestCandidate' = bestCandidate) ]_vars

\* a finished search with several expansions none of which was free of issues
StagnationWitness ==
    /\ sectionInput # NoCandidate
    /\ unravelSolved
    /\ ~unravelFailed
    /\ Len(poppedCandidates) > 2
    /\ \A i \in 1..Len(poppedCandidates) : poppedCandidates[i].issues # <<>>
    /\ bestCandidate.issues # <<>>
    /\ bestCandidate # originalCandidate

\* ---- operations for a transition via ----
ViaIssuesOf(c) == {c.issues[i] : i \in {j \in 1..Len(c.issues) : c.issues[j].type = "transition_via"}}

IsMutablePoint(id) == SegmentPointMap[id].segmentId \in MutableSegmentIds

ResolvedZ(c, id) == ResolvedPoint(c.pointModifications, id).z

\* the operations the via between A and B of candidate c should get
ExpectedViaOperations(c, A, B) ==
    (IF IsMutablePoint(A) THEN {ChangeLayerOp(ResolvedZ(c, B), <<A>>)} ELSE {})
    \cup (IF IsMutablePoint(B) THEN {ChangeLayerOp(ResolvedZ(c, A), <<B>>)} ELSE {})

HasViaIssue(c, A, B) == \E issue \in ViaIssuesOf(c) : issue.line1 = <<A, B>>

ViaOperationsExact(c, issue) ==
    LET A == issue.line1[1]
        B == issue.line1[2]
        operations == GetOperationsForIssue(c, issue)
    IN /\ SeqToSet(operations) = ExpectedViaOperations(c, A, B)
       /\ Len(operations) = Cardinality(ExpectedViaOperations(c, A, B))
       /\ \A i \in 1..Len(operations) :
             \E neighbor \in {GetNeighborByApplyingOperation(c, operations[i])} :
                /\ ResolvedZ(neighbor, A) = ResolvedZ(neighbor, B)
                /\ ~HasViaIssue(neighbor, A, B)

\* C23: for every transition_via(A, B) issue of an expanded candidate c,
\* getOperationsForIssue emits change_layer to the resolved z of B on [A] iff
\* A's segment is mutable, change_layer to the resolved z of A on [B] iff B's
\* segment is mutable, and nothing else; in the neighbour made by either
\* operation A and B resolve to the same layer and that via issue is gone.
ViaOperationsCorrect ==
    lastProcessedCandidate # NoCandidate =>
        \A issue \in ViaIssuesOf(lastProcessedCandidate) :
            ViaOperationsExact(lastProcessedCandidate, issue)

\* the expanded candidate has a via with one mutable and one immutable end,
\* and a via with two mutable ends one of which was moved to the other layer
ViaOperationsWitness ==
    /\ lastProcessedCandidate # NoCandidate
    /\ \E issue \in ViaIssuesOf(lastProcessedCandidate) :
          IsMutablePoint(issue.line1[1]) # IsMutablePoint(issue.line1[2])
    /\ \E issue \in ViaIssuesOf(lastProcessedCandidate) :
          /\ IsMutablePoint(issue.line1[1]) /\ IsMutablePoint(issue.line1[2])
          /\ \E id \in {issue.line1[1], issue.line1[2]} :
                ResolvedZ(lastProcessedCandidate, id) # SegmentPointMap[id].z
\* ---- operations for a same-layer crossing ----
CrossingIssuesOf(c) ==
    {c.issues[i] : i \in {j \in 1..Len(c.issues) : c.issues[j].type = "same_layer_crossing"}}

ChangeLayerOperationsFor(c, issue) ==
    {operation \in SeqToSet(GetOperationsForIssue(c, issue)) : operation.type = "change_layer"}

\* C24: for every same_layer_crossing issue of an expanded candidate c, every
\* change_layer operation emitted has newZ opposite to the resolved z (in c)
\* of each point it targets, and the neighbour it makes differs from c in the
\* resolved layer of each targeted point.
LayerFlipsFlip ==
    lastProcessedCandidate # NoCandidate =>
        \A issue \in CrossingIssuesOf(lastProcessedCandidate) :
            \A operation \in ChangeLayerOperationsFor(lastProcessedCandidate, issue) :
                \A id \in SeqToSet(operation.segmentPointIds) :
                    /\ operation.newZ = Flip(ResolvedZ(lastProcessedCandidate, id))
                    /\ \E neighbor \in
                          {GetNeighborByApplyingOperation(lastProcessedCandidate, operation)} :
                          ResolvedZ(neighbor, id) # ResolvedZ(lastProcessedCandidate, id)
\* ---- via detection ----
\* cells of the explored region, inside the section or not
RegionNodeIds == 1..Len(NodeIdToSegmentIds)

\* the (cell, pair) combinations for which candidate c lists a transition_via
ViasListed(c) ==
    {<<issue.capacityMeshNodeId, issue.line1>> : issue \in ViaIssuesOf(c)}

\* the (cell, pair) combinations whose two points resolve to different layers
ViasPresent(c) ==
    UNION { { <<n, unravelSection.segmentPairsInNode[n][i]>> :
                i \in { j \in 1..Len(unravelSection.segmentPairsInNode[n]) :
                          ResolvedZ(c, unravelSection.segmentPairsInNode[n][j][1])
                            # ResolvedZ(c, unravelSection.segmentPairsInNode[n][j][2]) } } :
            n \in RegionNodeIds \cap AllNodeIds }

\* C25: in every candidate the solver holds, the transition_via issues are
\* exactly the pairs [A, B] of segmentPairsInNode[n], n in allNodeIds, whose
\* resolved layers differ, each listed once.
ViaDetectionExact ==
    sectionInput # NoCandidate =>
        \A c \in HeldCandidates :
            /\ ViasListed(c) = ViasPresent(c)
            /\ Cardinality(ViasListed(c))
                  = Cardinality({i \in 1..Len(c.issues) : c.issues[i].type = "transition_via"})

\* a queued candidate with modifications that has vias in two cells,
\* beside a queued candidate without any via whose layers were
\* modified; the section does not hold every cell of the region
ViaDetectionWitness ==
    /\ RegionNodeIds \ AllNodeIds # {}
    /\ \E c \in SeqToSet(candidates) :
          /\ c.pointModifications # NoModifications
          /\ \E v, w \in ViasListed(c) : v[1] # w[1]
    /\ \E c \in SeqToSet(candidates) :
          /\ c.pointModifications # NoModifications
          /\ ViasListed(c) = {}
          /\ originalCandidate.issues # <<>>
\* ---- expansion order ----
\* every candidate that was ever on the queue, in the order of enqueueing,
\* provided the queue is first-in first-out
EnqueueOrder == poppedCandidates \o candidates

IsPrefixOf(s, t) == Len(s) <= Len(t) /\ SubSeq(t, 1, Len(s)) = s

\* C26: the queue is first-in first-out: a step expands the head of the queue
\* and appends the neighbours behind everything enqueued before, each with
\* one operation more than the expanded candidate; hence the expanded
\* candidates have non-decreasing operationsPerformed and the initial
\* candidate, with 0 operations, is expanded first.
FifoExpansionOrder ==
    /\ [](sectionInput # NoCandidate =>
            /\ \A i, j \in 1..Len(EnqueueOrder) :
                  i < j => EnqueueOrder[i].operationsPerformed
                             <= EnqueueOrder[j].operationsPerformed
            /\ EnqueueOrder # <<>> =>
                  /\ EnqueueOrder[1] = originalCandidate
                  /\ EnqueueOrder[1].operationsPerformed = 0)
    /\ [][ (~unravelSolved /\ candidates # <<>>) =>
              /\ lastProcessedCandidate' = Head(candidates)
              /\ poppedCandidates' = Append(poppedCandidates, Head(candidates))
              /\ IsPrefixOf(EnqueueOrder, EnqueueOrder')
              /\ \A i \in (Len(EnqueueOrder) + 1)..Len(EnqueueOrder') :
                    EnqueueOrder'[i].operationsPerformed
                       = Head(candidates).operationsPerformed + 1 ]_vars

\* candidates of three generations were expanded while an older and a
\* younger candidate wait on the queue
FifoExpansionWitness ==
    /\ Len(poppedCandidates) >= 3
    /\ poppedCandidates[Len(poppedCandidates)].operationsPerformed = 2
    /\ Len(candidates) >= 2
    /\ candidates[1].operationsPerformed = 2
    /\ candidates[Len(candidates)].operationsPerformed = 3
\* ---- frame of a step ----
\* the modification maps m and n agree on every point outside ids
SameModificationsOutside(m, n, ids) ==
    \A id \in ((DOMAIN m) \cup (DOMAIN n)) \ ids :
        id \in DOMAIN m /\ id \in DOMAIN n /\ m[id] = n[id]

BaselineUntouched ==
    \A id \in SegmentPointIds :
        /\ SegmentPointMap[id].x = sectionInput.segmentPoints[id].x
        /\ SegmentPointMap[id].y = sectionInput.segmentPoints[id].y
        /\ SegmentPointMap[id].z = sectionInput.segmentPoints[id].z

\* C27: expanding a candidate leaves the baseline segment points, the
\* expanded candidate, the other queued candidates, bestCandidate and
\* originalCandidate as they were; the modification map of every neighbour
\* differs from that of the expanded candidate only at the points named by
\* one of its operations.
OverlaysDoNotAlias ==
    /\ [](sectionInput # NoCandidate => BaselineUntouched)
    /\ [][ (~unravelSolved /\ candidates # <<>>) =>
              /\ unravelSection' = unravelSection
              /\ lastProcessedCandidate' = Head(candidates)
              /\ IsPrefixOf(Tail(candidates), candidates')
              /\ bestCandidate' \in {bestCandidate, Head(candidates)}
              /\ originalCandidate' = originalCandidate
              /\ \A i \in 1..Len(lastStep'.log) :
                    \E operation \in SeqToSet(GetNeighborOperationsForCandidate(Head(candidates))) :
                       /\ SameModificationsOutside(lastStep'.log[i].pointModifications,
                                                   Head(candidates).pointModifications,
                                                   SeqToSet(operation.segmentPointIds))
                       /\ lastStep'.log[i].pointModifications
                             = GetNeighborByApplyingOperation(Head(candidates),
                                                              operation).pointModifications
         ]_vars

\* a candidate with modifications was expanded into a swap neighbour and
\* layer-change neighbours while other modified candidates wait on the queue
\* and a different candidate is the best one
OverlaysWitness ==
    /\ lastProcessedCandidate # NoCandidate
    /\ lastProcessedCandidate.pointModifications # NoModifications
    /\ bestCandidate # lastProcessedCandidate
    /\ Len(candidates) >= 2
    /\ candidates[1].operationsPerformed = lastProcessedCandidate.operationsPerformed
    /\ \E i, j \in 1..Len(lastStep.log) :
          /\ \E id \in DOMAIN lastStep.log[i].pointModifications :
                lastStep.log[i].pointModifications[id].x # Undefined
          /\ \E id \in DOMAIN lastStep.log[j].pointModifications :
                /\ id \notin DOMAIN lastProcessedCandidate.pointModifications
                /\ lastStep.log[j].pointModifications[id].z # Undefined
\* ---- the section built by createUnravelSection ----
\* C28: rootNodeId is a mutable cell, the mutable cells are cells of the
\* section, immutableNodeIds is allNodeIds without mutableNodeIds, and
\* mutableSegmentIds is the union of nodeIdToSegmentIds[n] over the mutable
\* cells n.
SectionPartition ==
    sectionInput # NoCandidate =>
        /\ sectionInput.rootNodeId \in unravelSection.mutableNodeIds
        /\ unravelSection.mutableNodeIds \subseteq unravelSection.allNodeIds
        /\ unravelSection.immutableNodeIds
              = unravelSection.allNodeIds \ unravelSection.mutableNodeIds
        /\ unravelSection.immutableNodeIds \cap unravelSection.mutableNodeIds = {}
        /\ unravelSection.immutableNodeIds \cup unravelSection.mutableNodeIds
              = unravelSection.allNodeIds
        /\ unravelSection.mutableSegmentIds
              = { sId \in 1..Len(SegmentIdToNodeIds) :
                    \E n \in unravelSection.mutableNodeIds :
                        sId \in SeqToSet(NodeIdToSegmentIds[n]) }

\* a section with immutable cells that leaves out cells of the region and
\* has a mutable segment ending in an immutable cell; the search has run
SectionPartitionWitness ==
    /\ sectionInput # NoCandidate
    /\ unravelSolved
    /\ unravelSection.immutableNodeIds # {}
    /\ RegionNodeIds \ unravelSection.allNodeIds # {}
    /\ \E sId \in unravelSection.mutableSegmentIds :
          SeqToSet(SegmentIdToNodeIds[sId]) \cap unravelSection.immutableNodeIds # {}
\* the relation the second pass is meant to compute, from the point records
ShouldBeDirectlyConnected(A, B) ==
    /\ A # B
    /\ SegmentPointMap[A].segmentId # SegmentPointMap[B].segmentId
    /\ SegmentPointMap[A].connectionName = SegmentPointMap[B].connectionName
    /\ \E n \in SeqToSet(SegmentPointMap[A].capacityMeshNodeIds) :
          n \in SeqToSet(SegmentPointMap[B].capacityMeshNodeIds)

ListsAsConnected(A, B) ==
    B \in SeqToSet(SegmentPointMap[A].directlyConnectedSegmentPointIds)

\* C29: B is in A.directlyConnectedSegmentPointIds iff A is in B's list iff A
\* and B are distinct points of different segments with the same connection
\* name and a common cell; no point lists itself or lists an id twice.
DirectConnectivityExact ==
    sectionInput # NoCandidate =>
        /\ \A A, B \in SegmentPointIds :
              /\ ListsAsConnected(A, B) <=> ListsAsConnected(B, A)
              /\ ListsAsConnected(A, B) <=> ShouldBeDirectlyConnected(A, B)
        /\ \A A \in SegmentPointIds :
              /\ ~ListsAsConnected(A, A)
              /\ Cardinality(SeqToSet(SegmentPointMap[A].directlyConnectedSegmentPointIds))
                    = Len(SegmentPointMap[A].directlyConnectedSegmentPointIds)

\* a section with a point connected to two others, two points of one
\* connection on segments without a common cell, and two points of different
\* connections on neighbouring segments; the search has run
DirectConnectivityWitness ==
    /\ sectionInput # NoCandidate
    /\ unravelSolved
    /\ \E A \in SegmentPointIds :
          Len(SegmentPointMap[A].directlyConnectedSegmentPointIds) >= 2
    /\ \E A, B \in SegmentPointIds :
          /\ SegmentPointMap[A].connectionName = SegmentPointMap[B].connectionName
          /\ SegmentPointMap[A].segmentId # SegmentPointMap[B].segmentId
          /\ ~ListsAsConnected(A, B)
    /\ \E A, B \in SegmentPointIds :
          /\ SegmentPointMap[A].connectionName # SegmentPointMap[B].connectionName
          /\ SegmentPointMap[A].segmentId # SegmentPointMap[B].segmentId
          /\ \E n \in SeqToSet(SegmentPointMap[A].capacityMeshNodeIds) :
                n \in SeqToSet(SegmentPointMap[B].capacityMeshNodeIds)

\* how often the unordered pair {A, B} is listed for the cell n
TimesListed(n, A, B) ==
    Cardinality({k \in 1..Len(unravelSection.segmentPairsInNode[n]) :
        \/ unravelSection.segmentPairsInNode[n][k] = <<A, B>>
        \/ unravelSection.segmentPairsInNode[n][k] = <<B, A>>})

BothInNode(n, A, B) ==
    /\ n \in SeqToSet(SegmentPointMap[A].capacityMeshNodeIds)
    /\ n \in SeqToSet(SegmentPointMap[B].capacityMeshNodeIds)

\* C30: for every cell n of allNodeIds, segmentPairsInNode[n] lists the
\* unordered pair {A, B} exactly once if A and B are directly connected and
\* both lie on n, and not at all otherwise; cells outside allNodeIds have no
\* pair list.
PairIndexDeduplicated ==
    sectionInput # NoCandidate =>
        /\ DOMAIN unravelSection.segmentPairsInNode = unravelSection.allNodeIds
        /\ \A n \in unravelSection.allNodeIds :
              /\ \A A, B \in SegmentPointIds :
                    TimesListed(n, A, B)
                      = IF ListsAsConnected(A, B) /\ BothInNode(n, A, B) THEN 1 ELSE 0
              /\ \A k \in 1..Len(unravelSection.segmentPairsInNode[n]) :
                    /\ Len(unravelSection.segmentPairsInNode[n][k]) = 2
                    /\ SeqToSet(unravelSection.segmentPairsInNode[n][k])
                          \subseteq SegmentPointIds

\* a section with a cell holding three pairs and a cell that holds points
\* but no pair, in a region with cells outside the section; the search has run
PairIndexWitness ==
    /\ sectionInput # NoCandidate
    /\ unravelSolved
    /\ \E n \in unravelSection.allNodeIds : Len(unravelSection.segmentPairsInNode[n]) >= 3
    /\ RegionNodeIds \ unravelSection.allNodeIds # {}
    /\ \E n \in unravelSection.allNodeIds :
          /\ unravelSection.segmentPairsInNode[n] = <<>>
          /\ \E A \in SegmentPointIds : BothInNode(n, A, A)
\* ---- positions of the points of a segment ----
PointsOfSegment(sId) == {id \in SegmentPointIds : SegmentPointMap[id].segmentId = sId}

\* the points of segment sId that candidate c resolves to the position (x, y)
ResolvedAt(c, sId, x, y) ==
    {id \in PointsOfSegment(sId) :
        /\ ResolvedPoint(c.pointModifications, id).x = x
        /\ ResolvedPoint(c.pointModifications, id).y = y}

BaselineAt(sId, x, y) ==
    {id \in PointsOfSegment(sId) : SegmentPointMap[id].x = x /\ SegmentPointMap[id].y = y}

\* C31: in every candidate the solver holds, the resolved positions of the
\* points of each segment are a permutation of their baseline positions, and
\* every resolved z is 0 or 1.
PositionsStayOnSegment ==
    sectionInput # NoCandidate =>
        \A c \in HeldCandidates :
            /\ \A sId \in 1..Len(SegmentIdToNodeIds) :
                  \A id \in PointsOfSegment(sId) :
                     /\ Cardinality(ResolvedAt(c, sId, SegmentPointMap[id].x,
                                               SegmentPointMap[id].y))
                          = Cardinality(BaselineAt(sId, SegmentPointMap[id].x,
                                                   SegmentPointMap[id].y))
                     /\ BaselineAt(sId, ResolvedPoint(c.pointModifications, id).x,
                                   ResolvedPoint(c.pointModifications, id).y) # {}
            /\ \A id \in SegmentPointIds : ResolvedZ(c, id) \in {0, 1}

\* a queued candidate in which two points of one segment have traded places
\* and a point (of this or another segment) has changed its layer
PositionsWitness ==
    /\ sectionInput # NoCandidate
    /\ \E c \in SeqToSet(candidates) :
          /\ \E id \in SegmentPointIds :
                ResolvedPoint(c.pointModifications, id).y # SegmentPointMap[id].y
          /\ \E id \in SegmentPointIds : ResolvedZ(c, id) # SegmentPointMap[id].z
\* ---- cells whose issues enter the cost ----
\* every cell the segment sId borders is a cell of the section
SegmentInsideSection(sId) ==
    SeqToSet(SegmentIdToNodeIds[sId]) \subseteq unravelSection.allNodeIds

\* C32: every cell incident to a segment of mutableSegmentIds is in
\* allNodeIds, and every point modified in a candidate the solver holds lies
\* on a segment all of whose incident cells are in allNodeIds.
CostSeesEveryEdit ==
    sectionInput # NoCandidate =>
        /\ \A sId \in unravelSection.mutableSegmentIds : SegmentInsideSection(sId)
        /\ \A c \in HeldCandidates :
              \A sId \in ModifiedSegmentIds(c) : SegmentInsideSection(sId)

(***************************************************************************)
(*        S I N G L E   I N T R A - N O D E   R O U T E   S O L V E R      *)
(***************************************************************************)
MaxPortPoints == 4
MaxSubSolverIterations == 2
ConnectionNameChoices == {"a", "b", "c"}

\* nodeWithPortPoints.portPoints: the i-th port point lies at x = i; every
\* second one carries no z
PortPointSeqs ==
    UNION { { [i \in 1..n |-> [connectionName |-> names[i], x |-> i, y |-> 0,
                               z |-> IF i % 2 = 0 THEN Undefined ELSE 1]] :
              names \in [1..n -> ConnectionNameChoices] } : n \in 0..MaxPortPoints }

\* { x, y, z: z ?? 0 }
PointOfPortPoint(portPoint) ==
    [x |-> portPoint.x, y |-> portPoint.y,
     z |-> IF portPoint.z = Undefined THEN 0 ELSE portPoint.z]

ConnectionIndex(connections, connectionName) ==
    {k \in 1..Len(connections) : connections[k].connectionName = connectionName}

\* the loop over portPoints that fills unsolvedConnectionsMap: a Map keeps
\* its keys in the order of their first insertion
RECURSIVE GroupFrom(_, _, _)
GroupFrom(portPoints, i, connections) ==
    IF i > Len(portPoints) THEN connections
    ELSE LET portPoint == portPoints[i]
             at == ConnectionIndex(connections, portPoint.connectionName)
             next ==
                 IF at = {}
                 THEN Append(connections, [connectionName |-> portPoint.connectionName,
                                           points |-> <<PointOfPortPoint(portPoint)>>])
                 ELSE [k \in 1..Len(connections) |->
                          IF k \in at
                          THEN [connections[k] EXCEPT
                                   !.points = Append(@, PointOfPortPoint(portPoint))]
                          ELSE connections[k]]
         IN CHOOSE r \in { GroupFrom(portPoints, i + 1, v) : v \in {next} } : TRUE

\* Array.from(unsolvedConnectionsMap.entries().map(...))
GroupPortPoints(portPoints) ==
    CHOOSE r \in { GroupFrom(v, 1, <<>>) : v \in {portPoints} } : TRUE

\* cloneAndShuffleArray: the result holds the same elements in an order the
\* seed decides; every order is possible
ShuffledArrays(array) ==
    { [i \in 1..Len(array) |-> array[f[i]]] :
        f \in { g \in [1..Len(array) -> 1..Len(array)] :
                  \A i, j \in 1..Len(array) : g[i] = g[j] => i = j } }

\* the connections with the points of each of them shuffled
RECURSIVE ShufflePointsFrom(_, _)
ShufflePointsFrom(connections, i) ==
    IF i > Len(connections) THEN {<<>>}
    ELSE { <<[connections[i] EXCEPT !.points = points]>> \o rest :
             points \in ShuffledArrays(connections[i].points),
             rest \in ShufflePointsFrom(connections, i + 1) }

\* this.unsolvedConnections as the constructor leaves it
ConstructUnsolvedConnections(node) ==
    IF node.SHUFFLE_SEED # 0
    THEN UNION { ShufflePointsFrom(shuffled, 1) :
                   shuffled \in ShuffledArrays(GroupPortPoints(node.portPoints)) }
    ELSE {GroupPortPoints(node.portPoints)}

InitIntra ==
    /\ nodeWithPortPoints \in [portPoints : PortPointSeqs, SHUFFLE_SEED : {0, 1}]
    /\ unsolvedConnections \in ConstructUnsolvedConnections(nodeWithPortPoints)
    /\ totalConnections = Len(unsolvedConnections)
    /\ solvedRoutes = <<>>
    /\ failedSolvers = <<>>
    /\ activeSolver = NoCandidate
    /\ intraSolved = FALSE
    /\ intraFailed = FALSE
    /\ intraError = NoCandidate
    /\ startedSolvers = <<>>
    /\ MeshIdle
    /\ UnravelIdle

ConnectionNamesOf(connections) ==
    [k \in 1..Len(connections) |-> connections[k].connectionName]

\* new SingleHighDensityRouteSolver6_VertHorzLayer_FutureCost({...})
NewSubSolver(unsolvedConnection, obstacleRoutes, futureConnections) ==
    [connectionName |-> unsolvedConnection.connectionName,
     A |-> unsolvedConnection.points[1],
     B |-> unsolvedConnection.points[Len(unsolvedConnection.points)],
     obstacleRoutes |-> ConnectionNamesOf(obstacleRoutes),
     futureConnections |-> ConnectionNamesOf(futureConnections),
     iterations |-> 0,
     solved |-> FALSE,
     failed |-> FALSE]

\* activeSolver.step(): the route search of the sub-solver either goes on,
\* finds its path or gives up; it gives up at the latest when it runs out
\* of iterations
SubSolverStep(solver) ==
    { [solver EXCEPT !.iterations = @ + 1, !.solved = TRUE],
      [solver EXCEPT !.iterations = @ + 1, !.failed = TRUE] }
    \cup (IF solver.iterations + 1 < MaxSubSolverIterations
          THEN { [solver EXCEPT !.iterations = @ + 1] } ELSE {})

\* activeSolver.solvedPath
SolvedPath(solver) ==
    [connectionName |-> solver.connectionName, route |-> <<solver.A, solver.B>>]

\* this.failedSolvers.map((s) => s.error).join("\n")
JoinedErrors(solvers) == ConnectionNamesOf(solvers)

ActiveSolverKept(stepped) == stepped

\* this.activeSolver = null, once the sub-solver is solved or failed
ActiveSolverCleared(stepped) == NoCandidate

SolvedWhenDrained(failed) == TRUE

\* this.solved = this.failedSolvers.length === 0
SolvedWhenNoFailure(failed) == failed = <<>>

\* SingleIntraNodeRouteSolver._step
IntraStep ==
    /\ nodeWithPortPoints # NoCandidate
    /\ IF activeSolver # NoCandidate
       THEN \E stepped \in SubSolverStep(activeSolver) :
               /\ IF stepped.solved
                  THEN /\ solvedRoutes' = Append(solvedRoutes, SolvedPath(stepped))
                       /\ activeSolver' = ActiveSolverCleared(stepped)
                       /\ UNCHANGED <<failedSolvers, intraError, intraFailed>>
                  ELSE IF stepped.failed
                  THEN /\ failedSolvers' = Append(failedSolvers, stepped)
                       /\ activeSolver' = ActiveSolverCleared(stepped)
                       /\ intraError' = JoinedErrors(Append(failedSolvers, stepped))
                       /\ intraFailed' = TRUE
                       /\ UNCHANGED solvedRoutes
                  ELSE /\ activeSolver' = stepped
                       /\ UNCHANGED <<solvedRoutes, failedSolvers, intraError, intraFailed>>
               /\ UNCHANGED <<unsolvedConnections, intraSolved, startedSolvers>>
       ELSE IF unsolvedConnections = <<>>
       THEN /\ intraSolved' = SolvedWhenNoFailure(failedSolvers)
            /\ UNCHANGED <<unsolvedConnections, solvedRoutes, failedSolvers, activeSolver,
                           intraFailed, intraError, startedSolvers>>
       ELSE \E unsolvedConnection \in {unsolvedConnections[Len(unsolvedConnections)]} :
            \E rest \in {SubSeq(unsolvedConnections, 1, Len(unsolvedConnections) - 1)} :
               /\ unsolvedConnections' = rest
               /\ activeSolver' = NewSubSolver(unsolvedConnection, solvedRoutes, rest)
               /\ startedSolvers' = Append(startedSolvers, activeSolver')
               /\ UNCHANGED <<solvedRoutes, failedSolvers, intraSolved, intraFailed,
                              intraError>>
    /\ UNCHANGED <<nodeWithPortPoints, totalConnections>>
    /\ UNCHANGED meshVars
    /\ UNCHANGED unravelVars

NextIntra == IntraStep

SpecIntra == InitIntra /\ [][NextIntra]_vars

(***************************************************************************)
(* Properties of the intra-node solver                                     *)
(***************************************************************************)
HasNoDuplicates(seq) == \A i, j \in 1..Len(seq) : seq[i] = seq[j] => i = j

ActiveSolvers == IF activeSolver # NoCandidate THEN <<activeSolver>> ELSE <<>>

\* the four places a connection can be in add up to totalConnections
ConnectionsAddUp ==
    Len(solvedRoutes) + Len(failedSolvers) + Len(unsolvedConnections)
        + Len(ActiveSolvers) = totalConnections

\* the connection names of the port points are split between the connections
\* still waiting and the sub-solvers constructed so far, no name twice, and
\* each sub-solver constructed is the active one, a failed one or the one
\* that produced a solved route
EachConnectionHandedOnce ==
    nodeWithPortPoints # NoCandidate =>
        LET started == ConnectionNamesOf(startedSolvers)
            waiting == ConnectionNamesOf(unsolvedConnections)
        IN /\ HasNoDuplicates(started \o waiting)
           /\ SeqToSet(started \o waiting) =
                 {nodeWithPortPoints.portPoints[i].connectionName :
                    i \in 1..Len(nodeWithPortPoints.portPoints)}
           /\ HasNoDuplicates(ConnectionNamesOf(solvedRoutes) \o
                              ConnectionNamesOf(failedSolvers) \o
                              ConnectionNamesOf(ActiveSolvers))
           /\ SeqToSet(started) =
                 SeqToSet(ConnectionNamesOf(solvedRoutes)) \cup
                 SeqToSet(ConnectionNamesOf(failedSolvers)) \cup
                 SeqToSet(ConnectionNamesOf(ActiveSolvers))

\* a step constructs a sub-solver only when none is active, and the one it
\* constructs becomes the active one
StartsOnlyWhenNoneActive ==
    (startedSolvers' # startedSolvers \/
        (activeSolver' # NoCandidate /\ activeSolver = NoCandidate)) =>
        /\ activeSolver = NoCandidate
        /\ activeSolver' # NoCandidate
        /\ startedSolvers' = Append(startedSolvers, activeSolver')

\* C33: connection conservation in SingleIntraNodeRouteSolver: after any
\* number of _step calls solvedRoutes.length + failedSolvers.length +
\* unsolvedConnections.length + (1 if a sub-solver is active) equals
\* totalConnections; each connection name of the port points is handed to
\* exactly one sub-solver, at most one sub-solver is active at a time and a
\* new one is started only when none is active.
ConnectionConservation ==
    /\ [](ConnectionsAddUp /\ EachConnectionHandedOnce)
    /\ [][StartsOnlyWhenNoneActive]_vars

\* a connection with two port points was solved, another failed and a third
\* one is being routed
ConnectionConservationWitness ==
    /\ solvedRoutes # <<>>
    /\ failedSolvers # <<>>
    /\ activeSolver # NoCandidate
    /\ totalConnections = 3
    /\ Len(nodeWithPortPoints.portPoints) = 4
    /\ activeSolver.iterations > 0

\* everything is routed: nothing waits, nothing runs, nothing failed
AllConnectionsSolved ==
    /\ unsolvedConnections = <<>>
    /\ activeSolver = NoCandidate
    /\ failedSolvers = <<>>
    /\ Len(solvedRoutes) = totalConnections

\* a step that turns solved on does so in a state where everything is routed
SolvedSetOnlyWhenAllSolved ==
    (intraSolved' /\ ~intraSolved) => (AllConnectionsSolved /\ AllConnectionsSolved')

\* the step in which a sub-solver fails sets failed and error
FailureReportedAtOnce ==
    Len(failedSolvers') > Len(failedSolvers) =>
        /\ intraFailed'
        /\ intraError' = JoinedErrors(failedSolvers')
        /\ activeSolver' = NoCandidate

\* what holds in every state: solved means everything is routed, a failed
\* sub-solver is on record with failed and error set, a sub-solver that has
\* finished is no longer the active one, and solved and failed exclude each
\* other
OutcomeConsistent ==
    /\ intraSolved => AllConnectionsSolved
    /\ failedSolvers # <<>> => (intraFailed /\ intraError = JoinedErrors(failedSolvers))
    /\ activeSolver # NoCandidate => (~activeSolver.solved /\ ~activeSolver.failed)
    /\ ~(intraSolved /\ intraFailed)

\* C34: outcome of SingleIntraNodeRouteSolver: solved is set to true only in
\* a state where unsolvedConnections is empty, no sub-solver is active and
\* failedSolvers is empty (so solvedRoutes.length equals totalConnections);
\* as soon as a sub-solver fails, failed is set to true and error is set;
\* solved and failed are never both true.
OutcomeOfIntraSolver ==
    /\ []OutcomeConsistent
    /\ [][SolvedSetOnlyWhenAllSolved /\ FailureReportedAtOnce]_vars

\* three connections were routed one after the other and solved was set
OutcomeOfIntraSolverWitness ==
    /\ intraSolved
    /\ totalConnections = 3
    /\ Len(solvedRoutes) = 3
    /\ \E i \in 1..3 : startedSolvers[i].A # startedSolvers[i].B
====
